---- MODULE Spec2Model ----
(***************************************************************************)
(* Delivery tracker of the Raspberry Pi backend: MQTTClient in             *)
(* raspberry-pi-backend/mqtt_broker/mqtt_client.py.                        *)
(*                                                                         *)
(* Two threads act on one MQTTClient object.  The event-loop thread runs   *)
(* connect(), disconnect(), publish() and the retry loop's cycles; none of *)
(* them awaits anything but the retry loop's sleep, so they never          *)
(* interleave with each other, only with the network thread.  The network  *)
(* thread (the transport's loop) runs the callbacks _on_connect,           *)
(* _on_disconnect and _on_publish.  Every statement of one thread may fall *)
(* between two statements of the other, except inside `with retry_lock`.   *)
(* A `with self.retry_lock` block is two steps: the acquisition, and the   *)
(* body together with the release.                                         *)
(*                                                                         *)
(* The transport (paho) is the environment: a client object numbers its    *)
(* publishes and subscriptions from one counter that starts at 0 in every  *)
(* new client object, publish succeeds exactly when the session is up, and *)
(* the broker acknowledges a handed-off publish with the id the transport  *)
(* gave it, in the order of the hand-offs.                                 *)
(*                                                                         *)
(* Time is counted in seconds and kept relative: instead of time.time()    *)
(* and the instants read from it, the state holds the seconds elapsed      *)
(* since each instant (a message's timestamp, its last send) and the       *)
(* seconds left of each sleep.  An elapsed time saturates one second above *)
(* retry_delay, beyond which the code no longer tells it apart.  Handlers  *)
(* take no time on this scale; a sleeping coroutine may wake late.         *)
(***************************************************************************)
EXTENDS Integers, Sequences, FiniteSets, TLC

VARIABLES
    connected,           \* self.connected
    client,              \* self.client is not None
    net,                 \* the transport's session: "off", "connecting", "up", "lost"
    nextMid,             \* the transport client's last message id
    inflight,            \* publishes handed to the transport, not yet acknowledged, oldest first
    pending,             \* self.pending_messages, in insertion order
    message_id_counter,  \* self.message_id_counter
    stats,               \* self.stats
    retry_lock,          \* holder of self.retry_lock: "free", "loop", "net"
    retry_running,       \* self.retry_running
    loops,               \* the live retry_loop coroutines: seconds left of each one's sleep
    ev,                  \* the event-loop thread: position and locals
    nt,                  \* the network thread: position and locals
    nextUid,             \* history: number of publish() calls so far, plus one
    life,                \* history: what happened to each publish() call's message
    ret,                 \* history: the last publish() call and its outcome
    outages,             \* history: number of disconnections so far
    report,              \* the dictionary the last get_stats() returned
    call,                \* the function under study and the arguments of its call
    result               \* what that call returned

vars == <<connected, client, net, nextMid, inflight, pending, message_id_counter,
          stats, retry_lock, retry_running, loops, ev, nt, nextUid, life,
          ret, outages, report, call, result>>

(* ------------------------------ bounds -------------------------------- *)
MaxMsgs == 2
MaxOutages == 1

(* ------------------------- program constants -------------------------- *)
max_retries == 3
retry_delay == 2
qos_level == 1
RetryPeriod == 2
ConnectWait == 1
NumTopics == 7

NoQos == 0 - 1
QosInputs == {NoQos, 0, 1}

(* ------------------------------ helpers ------------------------------- *)
\* `qos or self.qos_level`: None and 0 are both falsy.
QosOr(q) == IF q = NoQos \/ q = 0 THEN qos_level ELSE q

\* a PendingMessage whose timestamp is the present instant: age is the time
\* elapsed since the timestamp.
PendingMessage(mid, qos, uid) ==
    [message_id |-> mid, qos |-> qos, age |-> 0, retry_count |-> 0, uid |-> uid]

\* elapsed times saturate here.
AgeCap == retry_delay + 1
Older(a) == IF a < AgeCap THEN a + 1 ELSE a

HasMid(p, mid) == \E i \in DOMAIN p : p[i].message_id = mid
IndexOf(p, mid) == CHOOSE i \in DOMAIN p : p[i].message_id = mid
GetMsg(p, mid) == p[IndexOf(p, mid)]
\* dict assignment: an existing key keeps its place and gets the new value.
PutMsg(p, rec) ==
    IF HasMid(p, rec.message_id)
    THEN [p EXCEPT ![IndexOf(p, rec.message_id)] = rec]
    ELSE Append(p, rec)
\* dict.pop(mid, None)
PopMsg(p, mid) == SelectSeq(p, LAMBDA r : r.message_id # mid)
TrackedUids(p) == {p[i].uid : i \in DOMAIN p}

MessageStats ==
    [total_published |-> 0, total_acknowledged |-> 0, total_failed |-> 0,
     total_received |-> 0, total_retried |-> 0, pending_messages |-> 0]

EvIdle == [pc |-> "idle", uid |-> 0, mid |-> 0, qos |-> 0, retry |-> FALSE,
           rc |-> "none", todo |-> <<>>, loop |-> 0, sleep |-> 0]
NtIdle == [pc |-> "idle", mid |-> 0, uid |-> 0, first |-> FALSE]

\* history of one publish() call's message, kept while the message lives:
\* fate: "unused", "calling", "tracked", "done";
\* failures: the times total_failed grew for it; resends: its republishes;
\* sinceSend: seconds since its last send (-1: never sent); gapOk: no two of
\* its sends were closer than retry_delay; armed: "down" once it was registered
\* or tracked while the client was disconnected, "up" once the client is
\* connected again; owed: the last disconnection found it tracked with retry
\* budget left and it has not been republished since the client is connected
\* again.
NoLife == [fate |-> "unused", failures |-> 0, resends |-> 0, sinceSend |-> 0 - 1,
           gapOk |-> TRUE, armed |-> "no", owed |-> FALSE]
Done == [NoLife EXCEPT !.fate = "done"]
NoRet == [kind |-> "none", mid |-> 0]
NoReport == [total_published |-> 0 - 1]
NoCall == [fn |-> "none"]
NoResult == [fn |-> "none"]

\* the transport's publish: (rc, mid); the id is taken before the send is tried.
TransportRc == IF net = "up" THEN "ok" ELSE "err"

\* history: a send of message u at the present time.
NoteSend(l, u, isResend) ==
    [l EXCEPT ![u].sinceSend = 0,
              ![u].gapOk = l[u].gapOk /\ (l[u].sinceSend < 0 \/ l[u].sinceSend >= retry_delay),
              ![u].resends = IF isResend THEN l[u].resends + 1 ELSE l[u].resends,
              ![u].owed = l[u].owed /\ ~(isResend /\ l[u].armed = "up")]

\* history: the message now stored under a key replaces another call's message.
NoteReplaced(l, p, rec) ==
    IF HasMid(p, rec.message_id) /\ GetMsg(p, rec.message_id).uid # rec.uid
    THEN [l EXCEPT ![GetMsg(p, rec.message_id).uid] = Done]
    ELSE l

\* history: a disconnection, seen by the messages tracked at that moment.
NoteDisconnect(l) ==
    [u \in DOMAIN l |->
        IF \E i \in DOMAIN pending : pending[i].uid = u
        THEN [l[u] EXCEPT !.armed = "down",
                          !.owed = \E i \in DOMAIN pending :
                                      pending[i].uid = u /\ pending[i].retry_count < max_retries]
        ELSE l[u]]

\* history: the client is connected again.
NoteReconnect(l) ==
    [u \in DOMAIN l |-> IF l[u].armed = "down" THEN [l[u] EXCEPT !.armed = "up"] ELSE l[u]]

(* -------------------------------- Init -------------------------------- *)
Init ==
    /\ connected = FALSE
    /\ client = FALSE
    /\ net = "off"
    /\ nextMid = 0
    /\ inflight = <<>>
    /\ pending = <<>>
    /\ message_id_counter = 0
    /\ stats = MessageStats
    /\ retry_lock = "free"
    /\ retry_running = FALSE
    /\ loops = <<>>
    /\ ev = EvIdle
    /\ nt = NtIdle
    /\ nextUid = 1
    /\ life = [u \in 1..MaxMsgs |-> NoLife]
    /\ ret = NoRet
    /\ outages = 0
    /\ report = NoReport
    /\ call = NoCall
    /\ result = NoResult

\* the MQTTClient as __init__ leaves it, for the studies of the other modules.
clientVars == <<connected, client, net, nextMid, inflight, pending, message_id_counter,
                stats, retry_lock, retry_running, loops, ev, nt, nextUid, life,
                ret, outages, report>>

ClientIdle ==
    /\ connected = FALSE /\ client = FALSE /\ net = "off" /\ nextMid = 0
    /\ inflight = <<>> /\ pending = <<>> /\ message_id_counter = 0
    /\ stats = MessageStats /\ retry_lock = "free" /\ retry_running = FALSE
    /\ loops = <<>> /\ ev = EvIdle /\ nt = NtIdle /\ nextUid = 1
    /\ life = [u \in 1..MaxMsgs |-> NoLife] /\ ret = NoRet /\ outages = 0
    /\ report = NoReport

\* the environment acts while a publish() call is still to come or a message
\* is still tracked.
Observing == nextUid <= MaxMsgs \/ pending # <<>> \/ ev.pc # "idle"

(* ----------------------- connection management ------------------------ *)
\* _start_retry_mechanism: one more retry_loop unless retry_running is set.
StartRetryMechanism(running, lp) ==
    IF running THEN lp ELSE Append(lp, RetryPeriod)

\* retry_loop after a cycle: `while self.retry_running` then sleep again, or end.
EndCycle(lp, i) ==
    IF retry_running
    THEN [lp EXCEPT ![i] = RetryPeriod]
    ELSE SubSeq(lp, 1, i - 1) \o SubSeq(lp, i + 1, Len(lp))

\* connect(), up to the one-second wait: a new transport client; its connect
\* call raises (the except branch) or starts the network loop.
Connect ==
    /\ ev.pc = "idle" /\ nt.pc = "idle" /\ net = "off"
    /\ Observing
    /\ client' = TRUE
    /\ nextMid' = 0
    /\ \E raises \in BOOLEAN :
         IF raises
         THEN UNCHANGED <<net, ev>>
         ELSE /\ net' = "connecting"
              /\ ev' = [EvIdle EXCEPT !.pc = "connect_sleep", !.sleep = ConnectWait]
    /\ UNCHANGED <<connected, inflight, pending, message_id_counter, stats, retry_lock,
                   retry_running, loops, nt, nextUid, life, ret, outages, report, call, result>>

\* connect(), after time.sleep(1): the retry mechanism starts if confirmed.
ConnectFinish ==
    /\ ev.pc = "connect_sleep" /\ ev.sleep = 0
    /\ ev' = EvIdle
    /\ IF connected
       THEN /\ retry_running' = TRUE
            /\ loops' = StartRetryMechanism(retry_running, loops)
       ELSE UNCHANGED <<retry_running, loops>>
    /\ UNCHANGED <<connected, client, net, nextMid, inflight, pending, message_id_counter,
                   stats, retry_lock, nt, nextUid, life, ret, outages, report, call, result>>

\* _on_connect(rc): rc = 0 sets connected and subscribes to every topic.
OnConnect ==
    /\ net = "connecting" /\ nt.pc = "idle"
    /\ \E rc \in {0, 5} :
         IF rc = 0
         THEN /\ connected' = TRUE
              /\ net' = "up"
              /\ nextMid' = nextMid + NumTopics
              /\ life' = NoteReconnect(life)
         ELSE /\ connected' = FALSE
              /\ UNCHANGED <<net, nextMid, life>>
    /\ UNCHANGED <<client, inflight, pending, message_id_counter, stats, retry_lock,
                   retry_running, loops, ev, nt, nextUid, ret, outages, report, call, result>>

\* the transport loses its session; the callback has not run yet.
NetDrop ==
    /\ net = "up" /\ outages < MaxOutages
    /\ Observing
    /\ net' = "lost"
    /\ outages' = outages + 1
    /\ UNCHANGED <<connected, client, nextMid, inflight, pending, message_id_counter,
                   stats, retry_lock, retry_running, loops, ev, nt, nextUid, life, ret, report, call, result>>

\* _on_disconnect: the transport reconnects by itself afterwards.
OnDisconnect ==
    /\ net = "lost" /\ nt.pc = "idle"
    /\ connected' = FALSE
    /\ net' = "connecting"
    /\ life' = NoteDisconnect(life)
    /\ UNCHANGED <<client, nextMid, inflight, pending, message_id_counter, stats,
                   retry_lock, retry_running, loops, ev, nt, nextUid, ret,
                   outages, report, call, result>>

\* disconnect(): loop_stop() joins the network thread.
Disconnect ==
    /\ ev.pc = "idle" /\ nt.pc = "idle"
    /\ outages < MaxOutages
    /\ Observing
    /\ outages' = outages + 1
    /\ retry_running' = FALSE
    /\ IF client
       THEN /\ connected' = FALSE
            /\ net' = "off"
            /\ inflight' = <<>>
            /\ life' = IF connected THEN NoteDisconnect(life) ELSE life
       ELSE UNCHANGED <<connected, net, inflight, life>>
    /\ UNCHANGED <<client, nextMid, pending, message_id_counter, stats, retry_lock,
                   loops, ev, nt, nextUid, ret, report, call, result>>

\* a second passes: every elapsed time grows, every sleep shrinks.  A retry_loop
\* whose sleep has ended runs before the next second unless connect() blocks the
\* event loop.
Tick ==
    /\ ev.pc \in {"idle", "connect_sleep"} /\ nt.pc = "idle"
    /\ ev.pc = "idle" => \A i \in DOMAIN loops : loops[i] > 0
    /\ Observing
    /\ pending' = [i \in DOMAIN pending |-> [pending[i] EXCEPT !.age = Older(pending[i].age)]]
    /\ loops' = [i \in DOMAIN loops |-> IF loops[i] > 0 THEN loops[i] - 1 ELSE 0]
    /\ ev' = [ev EXCEPT !.sleep = IF ev.sleep > 0 THEN ev.sleep - 1 ELSE 0]
    /\ life' = [u \in DOMAIN life |->
                  [life[u] EXCEPT !.sinceSend = IF life[u].sinceSend < 0 THEN life[u].sinceSend
                                                ELSE IF life[u].sinceSend < retry_delay
                                                     THEN life[u].sinceSend + 1
                                                     ELSE retry_delay]]
    /\ UNCHANGED <<connected, client, net, nextMid, inflight, message_id_counter,
                   stats, retry_lock, retry_running, nt, nextUid, ret,
                   outages, report, call, result>>

(* ------------------------------ publish() ----------------------------- *)
\* a publish() that would queue every message on a disconnected client
QueuesAlways(retry) == TRUE

\* line 289: `if retry`
QueuesWhenDisconnected(retry) == retry

\* publish(), lines 288-299: not connected: raise or go on to queue the
\* message; connected: hand the message to the transport.
PublishCall(qosIn, retry) ==
    /\ ev.pc = "idle" /\ nextUid <= MaxMsgs
    /\ nextUid' = nextUid + 1
    /\ LET u == nextUid
       IN  IF ~connected
           THEN /\ IF QueuesWhenDisconnected(retry)
                   THEN /\ ev' = [EvIdle EXCEPT !.pc = "queue", !.uid = u,
                                                !.qos = QosOr(qosIn), !.retry = retry]
                        /\ ret' = NoRet
                        /\ life' = [life EXCEPT ![u].fate = "calling"]
                   ELSE /\ ev' = EvIdle
                        /\ ret' = [NoRet EXCEPT !.kind = "raised"]
                        /\ life' = [life EXCEPT ![u] = Done]
                /\ UNCHANGED <<nextMid, inflight>>
           ELSE /\ nextMid' = nextMid + 1
                /\ inflight' = IF TransportRc = "ok"
                               THEN Append(inflight, [mid |-> nextMid + 1, uid |-> u, first |-> TRUE])
                               ELSE inflight
                /\ ev' = [EvIdle EXCEPT !.pc = IF TransportRc = "ok" THEN "pub_ok" ELSE "pub_err",
                                        !.uid = u, !.mid = nextMid + 1,
                                        !.qos = QosOr(qosIn), !.retry = retry]
                /\ ret' = NoRet
                /\ life' = NoteSend([life EXCEPT ![u].fate = "calling"], u, FALSE)
    /\ UNCHANGED <<connected, client, net, pending, message_id_counter, stats, retry_lock,
                   retry_running, loops, nt, outages, report, call, result>>

\* publish(), lines 301-314: count the call, build the PendingMessage, take
\* the lock (a message at level 0 is returned untracked).
PublishTrack ==
    /\ ev.pc = "pub_ok"
    /\ message_id_counter' = message_id_counter + 1
    /\ IF ev.qos > 0
       THEN /\ retry_lock = "free"
            /\ retry_lock' = "loop"
            /\ ev' = [ev EXCEPT !.pc = "pub_reg"]
            /\ UNCHANGED <<ret, life>>
       ELSE /\ ev' = EvIdle
            /\ ret' = [ret EXCEPT !.kind = "mid", !.mid = ev.mid]
            /\ life' = [life EXCEPT ![ev.uid] = Done]
            /\ UNCHANGED retry_lock
    /\ UNCHANGED <<connected, client, net, nextMid, inflight, pending, stats,
                   retry_running, loops, nt, nextUid, outages, report, call, result>>

\* the body of a registration under the lock (lines 315-317 and 348-350).
Register(rec) ==
    /\ pending' = PutMsg(pending, rec)
    /\ stats' = [stats EXCEPT !.total_published = stats.total_published + 1,
                              !.pending_messages = Len(PutMsg(pending, rec))]
    /\ life' = [NoteReplaced(life, pending, rec) EXCEPT
                   ![rec.uid].fate = "tracked",
                   ![rec.uid].armed = IF connected THEN "no" ELSE "down",
                   ![rec.uid].owed = FALSE]
    /\ ret' = [ret EXCEPT !.kind = "mid", !.mid = rec.message_id]
    /\ retry_lock' = "free"
    /\ ev' = EvIdle

\* publish(), lines 315-320.
PublishRegister ==
    /\ ev.pc = "pub_reg" /\ retry_lock = "loop"
    /\ Register(PendingMessage(ev.mid, ev.qos, ev.uid))
    /\ UNCHANGED <<connected, client, net, nextMid, inflight, message_id_counter,
                   retry_running, loops, nt, nextUid, outages, report, call, result>>

\* the failure count of publish(), line 323.
CountPublishFailure(st) == [st EXCEPT !.total_failed = st.total_failed + 1]

\* publish(), lines 321-330: the transport refused the message.
PublishFailed ==
    /\ ev.pc = "pub_err"
    /\ stats' = CountPublishFailure(stats)
    /\ IF ev.retry
       THEN /\ ev' = [ev EXCEPT !.pc = "queue"]
            /\ life' = [life EXCEPT ![ev.uid].failures = life[ev.uid].failures + 1]
            /\ UNCHANGED ret
       ELSE /\ ev' = EvIdle
            /\ life' = [life EXCEPT ![ev.uid] = Done]
            /\ ret' = [ret EXCEPT !.kind = "raised"]
    /\ UNCHANGED <<connected, client, net, nextMid, inflight, pending, message_id_counter,
                   retry_lock, retry_running, loops, nt, nextUid, outages, report, call, result>>

\* _queue_message_for_retry, lines 334-347: the id is the client's own counter.
QueuePrepare ==
    /\ ev.pc = "queue" /\ retry_lock = "free"
    /\ message_id_counter' = message_id_counter + 1
    /\ ev' = [ev EXCEPT !.pc = "queue_reg", !.mid = message_id_counter + 1]
    /\ retry_lock' = "loop"
    /\ UNCHANGED <<connected, client, net, nextMid, inflight, pending, stats,
                   retry_running, loops, nt, nextUid, life, ret, outages, report, call, result>>

\* _queue_message_for_retry, lines 348-353.
QueueRegister ==
    /\ ev.pc = "queue_reg" /\ retry_lock = "loop"
    /\ Register(PendingMessage(ev.mid, ev.qos, ev.uid))
    /\ UNCHANGED <<connected, client, net, nextMid, inflight, message_id_counter,
                   retry_running, loops, nt, nextUid, outages, report, call, result>>

(* --------------------------- the retry cycle -------------------------- *)
\* a retry cycle that would republish whatever it finds
NeedsRetryNoDelay(msg) == msg.age >= 0

\* line 389: older than its backoff interval.
NeedsRetry(msg) == msg.age > retry_delay

\* line 390: budget left.
HasBudget(msg) == msg.retry_count < max_retries

\* retry_loop wakes from its sleep and _retry_pending_messages starts
\* (lines 365-366, 378-382).
RetryWake ==
    /\ ev.pc = "idle"
    /\ \E i \in DOMAIN loops :
         /\ loops[i] = 0
         /\ IF ~connected
            THEN /\ loops' = EndCycle(loops, i)
                 /\ UNCHANGED ev
            ELSE /\ ev' = [EvIdle EXCEPT !.pc = "scan", !.loop = i]
                 /\ UNCHANGED loops
    /\ UNCHANGED <<connected, client, net, nextMid, inflight, pending, message_id_counter,
                   stats, retry_lock, retry_running, nt, nextUid, life, ret,
                   outages, report, call, result>>

\* line 384
RetryScanAcquire ==
    /\ ev.pc = "scan" /\ retry_lock = "free"
    /\ retry_lock' = "loop"
    /\ ev' = [ev EXCEPT !.pc = "scan_body"]
    /\ UNCHANGED <<connected, client, net, nextMid, inflight, pending, message_id_counter,
                   stats, retry_running, loops, nt, nextUid, life, ret, outages, report, call, result>>

\* lines 385-397: collect the messages to resend, drop the exhausted ones.
RetryScan ==
    /\ ev.pc = "scan_body" /\ retry_lock = "loop"
    /\ LET toRetry == SelectSeq(pending, LAMBDA m : NeedsRetry(m) /\ HasBudget(m))
           gone == SelectSeq(pending, LAMBDA m : NeedsRetry(m) /\ ~HasBudget(m))
           kept == SelectSeq(pending, LAMBDA m : ~(NeedsRetry(m) /\ ~HasBudget(m)))
       IN  /\ pending' = kept
           /\ stats' = [stats EXCEPT
                          !.total_failed = stats.total_failed + Len(gone),
                          !.pending_messages = IF Len(gone) > 0 THEN Len(kept)
                                               ELSE stats.pending_messages]
           /\ life' = [u \in DOMAIN life |->
                         IF u \in TrackedUids(gone)
                         THEN Done
                         ELSE life[u]]
           /\ IF toRetry = <<>>
              THEN /\ ev' = EvIdle
                   /\ loops' = EndCycle(loops, ev.loop)
              ELSE /\ ev' = [ev EXCEPT !.pc = "send", !.todo = toRetry]
                   /\ UNCHANGED loops
    /\ retry_lock' = "free"
    /\ UNCHANGED <<connected, client, net, nextMid, inflight, message_id_counter,
                   retry_running, nt, nextUid, ret, outages, report, call, result>>

\* lines 400-402: republish the next collected message.
RetrySend ==
    /\ ev.pc = "send"
    /\ LET msg == Head(ev.todo)
       IN  /\ nextMid' = nextMid + 1
           /\ inflight' = IF TransportRc = "ok"
                          THEN Append(inflight, [mid |-> nextMid + 1, uid |-> msg.uid, first |-> FALSE])
                          ELSE inflight
           /\ life' = NoteSend(life, msg.uid, TRUE)
           /\ ev' = [ev EXCEPT !.pc = "upd", !.rc = TransportRc]
    /\ UNCHANGED <<connected, client, net, pending, message_id_counter, stats, retry_lock,
                   retry_running, loops, nt, nextUid, ret, outages, report, call, result>>

\* lines 406 and 414
RetryUpdAcquire ==
    /\ ev.pc = "upd" /\ retry_lock = "free"
    /\ retry_lock' = "loop"
    /\ ev' = [ev EXCEPT !.pc = "upd_body"]
    /\ UNCHANGED <<connected, client, net, nextMid, inflight, pending, message_id_counter,
                   stats, retry_running, loops, nt, nextUid, life, ret, outages, report, call, result>>

\* lines 408-409 and 416-417: one more retry, the timestamp reset.
Retried(msg) == [msg EXCEPT !.retry_count = msg.retry_count + 1, !.age = 0]

\* lines 407-417, then the next message or the end of the cycle.
RetryUpdate ==
    /\ ev.pc = "upd_body" /\ retry_lock = "loop"
    /\ LET mid == Head(ev.todo).message_id
       IN  IF HasMid(pending, mid)
           THEN /\ pending' = [pending EXCEPT ![IndexOf(pending, mid)] = Retried(GetMsg(pending, mid))]
                /\ stats' = IF ev.rc = "ok"
                            THEN [stats EXCEPT !.total_retried = stats.total_retried + 1]
                            ELSE stats
           ELSE UNCHANGED <<pending, stats>>
    /\ retry_lock' = "free"
    /\ IF Tail(ev.todo) = <<>>
       THEN /\ ev' = EvIdle
            /\ loops' = EndCycle(loops, ev.loop)
       ELSE /\ ev' = [ev EXCEPT !.pc = "send", !.todo = Tail(ev.todo), !.rc = "none"]
            /\ UNCHANGED loops
    /\ UNCHANGED <<connected, client, net, nextMid, inflight, message_id_counter,
                   retry_running, nt, nextUid, life, ret, outages, report, call, result>>

(* ------------------------- the acknowledgment ------------------------- *)
\* the broker acknowledges a publish; _on_publish(mid) takes the lock (line 160).
AckAcquire ==
    /\ net = "up" /\ nt.pc = "idle" /\ retry_lock = "free"
    /\ inflight # <<>>
    /\ inflight' = Tail(inflight)
    /\ nt' = [pc |-> "ack", mid |-> Head(inflight).mid, uid |-> Head(inflight).uid,
              first |-> Head(inflight).first]
    /\ retry_lock' = "net"
    /\ UNCHANGED <<connected, client, net, nextMid, pending, message_id_counter, stats,
                   retry_running, loops, ev, nextUid, life, ret, outages, report, call, result>>

\* line 161: the acknowledged id is a key of the tracking set.
AckMatches(p, mid) == HasMid(p, mid)

\* _on_publish, lines 161-168.
AckBody ==
    /\ nt.pc = "ack" /\ retry_lock = "net"
    /\ IF AckMatches(pending, nt.mid)
       THEN /\ pending' = PopMsg(pending, nt.mid)
            /\ stats' = [stats EXCEPT
                           !.total_acknowledged = stats.total_acknowledged + 1,
                           !.pending_messages = Len(PopMsg(pending, nt.mid))]
            /\ life' = [life EXCEPT ![GetMsg(pending, nt.mid).uid] = Done]
       ELSE UNCHANGED <<pending, stats, life>>
    /\ retry_lock' = "free"
    /\ nt' = NtIdle
    /\ UNCHANGED <<connected, client, net, nextMid, inflight, message_id_counter,
                   retry_running, loops, ev, nextUid, ret, outages, report, call, result>>

(* --------------------------- specification ---------------------------- *)
Next ==
    \/ Connect \/ ConnectFinish \/ OnConnect \/ NetDrop \/ OnDisconnect \/ Disconnect
    \/ Tick
    \/ (\E qosIn \in QosInputs, retry \in BOOLEAN : PublishCall(qosIn, retry))
    \/ PublishTrack \/ PublishRegister \/ PublishFailed
    \/ QueuePrepare \/ QueueRegister
    \/ RetryWake \/ RetryScanAcquire \/ RetryScan \/ RetrySend \/ RetryUpdAcquire
    \/ RetryUpdate
    \/ AckAcquire \/ AckBody

Spec == Init /\ [][Next]_vars

(* ----------------------------- get_stats ------------------------------ *)
MaxCount == 12

\* MessageStats.get_reliability (lines 42-48) as the exact fraction num/den of
\* a percentage.
GetReliability(st) ==
    IF st.total_published = 0
    THEN [num |-> 100, den |-> 1]
    ELSE [num |-> st.total_acknowledged * 100, den |-> st.total_published]

\* a report that would cut the ratio after two decimals
Trunc2(x) == (x.num * 100) \div x.den

\* round(x, 2) of a non-negative fraction, in hundredths: the nearest
\* hundredth, a tie going to the even one.
Round2(x) ==
    LET scaled == x.num * 100
        q == scaled \div x.den
        r == scaled % x.den
    IN  IF 2 * r < x.den THEN q
        ELSE IF 2 * r > x.den THEN q + 1
        ELSE IF q % 2 = 0 THEN q ELSE q + 1

\* get_stats(), lines 431-443; reliability_percentage in hundredths of a percent.
GetStats ==
    /\ retry_lock = "free"
    /\ report' = [total_published |-> stats.total_published,
                  total_acknowledged |-> stats.total_acknowledged,
                  total_failed |-> stats.total_failed,
                  total_received |-> stats.total_received,
                  total_retried |-> stats.total_retried,
                  pending_messages |-> stats.pending_messages,
                  reliability_percentage |-> Round2(GetReliability(stats)),
                  qos_level |-> qos_level]
    /\ UNCHANGED <<connected, client, net, nextMid, inflight, pending, message_id_counter,
                   stats, retry_lock, retry_running, loops, ev, nt, nextUid, life, ret,
                   outages, call, result>>

\* a client after one session that is over: connect(), p publishes at level 1
\* of which a were acknowledged and the others republished max_retries times
\* and marked failed, then disconnect().  The history starts here.
InitStats ==
    /\ connected = FALSE /\ client = TRUE /\ net = "off"
    /\ inflight = <<>> /\ pending = <<>>
    /\ retry_lock = "free" /\ retry_running = FALSE /\ loops = <<>>
    /\ ev = EvIdle /\ nt = NtIdle /\ nextUid = 1
    /\ life = [u \in 1..MaxMsgs |-> NoLife] /\ ret = NoRet /\ outages = 0
    /\ report = NoReport /\ call = NoCall /\ result = NoResult
    /\ \E p \in 0..MaxCount : \E a \in 0..p :
         /\ stats = [MessageStats EXCEPT !.total_published = p,
                                         !.total_acknowledged = a,
                                         !.total_failed = p - a,
                                         !.total_retried = max_retries * (p - a)]
         /\ message_id_counter = p
         /\ nextMid = NumTopics + p + max_retries * (p - a)

SpecStats == InitStats /\ [][GetStats]_vars

(* ------------------------------- claims ------------------------------- *)
\* steps of the model, as seen from a pair of states
AckStep == nt.pc = "ack" /\ nt'.pc = "idle"
ScanStep == ev.pc = "scan_body" /\ ev'.pc # "scan_body"
CycleStep == ev.pc \in {"scan", "scan_body", "send", "upd", "upd_body"} /\ ev' # ev
WakeStep == ev.pc = "idle" /\ (ev'.pc = "scan" \/ (loops' # loops /\ UNCHANGED <<pending, ev, retry_running>>))
ExhaustedNow(m) == ScanStep /\ NeedsRetry(m) /\ ~HasBudget(m)
Tracks(p, u) == \E i \in DOMAIN p : p[i].uid = u
\* the tracking set without the elapsed times
Untimed(p) == [i \in DOMAIN p |-> [p[i] EXCEPT !.age = 0]]

\* C1: a message that is never acknowledged is republished exactly
\* max_retries times before a retry cycle removes it, and total_failed grows
\* by exactly one for it over its whole life.
C1_RetriedThenFailedOnce ==
    [][\A i \in DOMAIN pending :
         ExhaustedNow(pending[i]) =>
            /\ life[pending[i].uid].resends = max_retries
            /\ life[pending[i].uid].failures = 0
            /\ ~Tracks(pending', pending[i].uid)
            /\ stats'.total_failed > stats.total_failed]_vars

\* C2: the acknowledgment of a publish that publish() handed to the transport
\* removes that publish's PendingMessage and adds exactly one to
\* total_acknowledged, however the callback interleaves with publish().
C2_AckOfPublishCounts ==
    [][(AckStep /\ nt.first /\ life[nt.uid].fate \in {"calling", "tracked"}) =>
          /\ stats'.total_acknowledged = stats.total_acknowledged + 1
          /\ life'[nt.uid].fate = "done"
          /\ ~Tracks(pending', nt.uid)]_vars

\* C3: a tracked message stays in the tracking set, under its key, until an
\* acknowledgment for its correlation id is processed or a retry cycle finds
\* its budget exhausted; nothing else removes or replaces it.
C3_TrackedUntilAckOrExhausted ==
    [][\A i \in DOMAIN pending :
         \/ \E j \in DOMAIN pending' : /\ pending'[j].uid = pending[i].uid
                                       /\ pending'[j].message_id = pending[i].message_id
         \/ AckStep /\ nt.mid = pending[i].message_id
         \/ ExhaustedNow(pending[i])]_vars

\* C4: when the broker acknowledges the resend of a message that was tracked or
\* queued during an outage, the message leaves the tracking set and is counted
\* as acknowledged.
C4_ResendAckSettlesMessage ==
    [][(AckStep /\ ~nt.first /\ Tracks(pending, nt.uid) /\ life[nt.uid].armed = "up") =>
          /\ ~Tracks(pending', nt.uid)
          /\ stats'.total_acknowledged = stats.total_acknowledged + 1]_vars

\* C5: while the client is disconnected a step of the retry cycle sends
\* nothing and leaves the tracking set and total_failed as they are.
C5_NoRetryWorkWhileDisconnected ==
    [][(~connected /\ (CycleStep \/ WakeStep)) =>
          /\ nextMid' = nextMid
          /\ pending' = pending
          /\ stats'.total_failed = stats.total_failed]_vars

\* C6: a message that had retry budget left when the transport disconnected
\* is republished at least once after the reconnection before a retry cycle
\* marks it failed.
C6_ResentAfterReconnectBeforeFailing ==
    [][\A i \in DOMAIN pending :
         ExhaustedNow(pending[i]) =>
            ~(life[pending[i].uid].armed = "up" /\ life[pending[i].uid].owed)]_vars

C8_ReliabilityIsExactRatio ==
    report.total_published >= 0 =>
       IF report.total_published = 0
       THEN report.reliability_percentage = 100 * 100
       ELSE report.reliability_percentage * report.total_published
               = report.total_acknowledged * 100 * 100

\* C8 as amended: the reported reliability is acknowledged / published as a
\* percentage rounded to two decimals (100 when nothing was published), and
\* 100 when every publish was acknowledged.
C8_ReliabilityIsRoundedRatio ==
    report.total_published >= 0 =>
       /\ report.total_published = stats.total_published
       /\ report.total_acknowledged = stats.total_acknowledged
       /\ IF report.total_published = 0
          THEN report.reliability_percentage = 100 * 100
          ELSE LET exact == report.total_acknowledged * 100 * 100
                   shown == report.reliability_percentage * report.total_published
               IN  /\ 2 * (shown - exact) <= report.total_published
                   /\ 2 * (exact - shown) <= report.total_published
       /\ report.total_acknowledged = report.total_published
             => report.reliability_percentage = 100 * 100

C8_Witness ==
    /\ report.total_published = 3 /\ report.total_acknowledged = 1
    /\ report.reliability_percentage = 3333

\* C9: every change of the tracking set or of the delivery counters is made by
\* a thread that holds retry_lock.
C9_MutationsUnderLock ==
    [][(Untimed(pending') # Untimed(pending) \/ stats' # stats) =>
          \/ ev' # ev /\ retry_lock = "loop"
          \/ nt' # nt /\ retry_lock = "net"]_vars

\* C10: two consecutive sends of one tracked message are at least retry_delay
\* apart.
C10_SendsSpaced == \A u \in DOMAIN life : life[u].gapOk

C10_Witness ==
    \E i \in DOMAIN pending :
       /\ pending[i].retry_count >= 2
       /\ life[pending[i].uid].resends >= 2
       /\ life[pending[i].uid].gapOk

(***************************************************************************)
(* Ingestion: handle_mqtt_message in raspberry-pi-backend/api/main.py.     *)
(*                                                                         *)
(* A Python value is a record with its type in field t: "none", "str"      *)
(* (field s), "int" (field n), "float" (field n in tenths, field fin false *)
(* for nan and the infinities), "obj" (a non-empty container).  A          *)
(* dictionary is a function from PayloadKeys to values, Absent where the   *)
(* key is missing.  A topic is its sequence of words and "/" separators.   *)
(***************************************************************************)
Absent == [t |-> "absent"]
PyNone == [t |-> "none"]
StrV(x) == [t |-> "str", s |-> x]
IntV(x) == [t |-> "int", n |-> x]
FloatV(tenths) == [t |-> "float", n |-> tenths, fin |-> TRUE]
NonFinite == [t |-> "float", n |-> 0, fin |-> FALSE]
Obj == [t |-> "obj"]
IsStr(v, x) == v.t = "str" /\ v.s = x

\* bool(v)
Truthy(v) ==
    CASE v.t = "str" -> v.s # ""
      [] v.t = "int" -> v.n # 0
      [] v.t = "float" -> ~v.fin \/ v.n # 0
      [] v.t = "obj" -> TRUE
      [] OTHER -> FALSE

\* a or b
PyOr(a, b) == IF Truthy(a) THEN a ELSE b

PayloadKeys == {"device_id", "deviceId", "sensor_type", "sensorType", "timestamp",
                "time", "location", "value", "raw", "status"}
metadata_fields == {"device_id", "deviceId", "sensor_type", "sensorType", "timestamp",
                    "time", "Timestamp", "location", "Location", "topic",
                    "received_at", "receivedAt"}
EmptyDict == [k \in PayloadKeys |-> Absent]

\* payload.get(k)
Get(d, k) == IF k \in DOMAIN d /\ d[k].t # "absent" THEN d[k] ELSE PyNone
\* k in payload
HasKey(d, k) == k \in DOMAIN d /\ d[k].t # "absent"
KeysOf(d) == {k \in DOMAIN d : d[k].t # "absent"}

\* str(v) of the values that reach line 141
PyStr(v) == IF v.t = "none" THEN StrV("None") ELSE StrV("[...]")

\* lines 131-141: a payload that is no dictionary becomes one.
\* shape "dict": a dictionary; "scalar": int, float or str; "pairs": an
\* iterable of key-value pairs; "other": anything else (None, a list of scalars).
EnsureDict(payload) ==
    CASE payload.shape = "dict" -> payload.d
      [] payload.shape = "scalar" -> [EmptyDict EXCEPT !["value"] = payload.v, !["raw"] = payload.v]
      [] payload.shape = "pairs" -> payload.d
      [] OTHER -> [EmptyDict EXCEPT !["value"] = PyStr(payload.v), !["raw"] = payload.v]

\* topic.split("/")
RECURSIVE Split(_)
Split(topic) ==
    IF topic = <<>> THEN <<"">>
    ELSE IF Head(topic) = "/" THEN <<"">> \o Split(Tail(topic))
    ELSE LET rest == Split(Tail(topic))
         IN  <<Head(topic)>> \o Tail(rest)

\* float(s) of a str: the strings the sensors are seen to send.
StrToFloat(x) ==
    CASE x = "1700" -> FloatV(17000)
      [] x = "25.5" -> FloatV(255)
      [] x = "1" -> FloatV(10)
      [] x = "nan" -> NonFinite
      [] OTHER -> Absent

\* int(x) of a finite float: truncation toward zero.
FloatToInt(f) == IF f.n >= 0 THEN IntV(f.n \div 10) ELSE IntV(0 - ((0 - f.n) \div 10))

\* lines 148-153
ResolveDeviceId(d, topic_parts) ==
    LET explicit == PyOr(Get(d, "device_id"), Get(d, "deviceId"))
        fromTopic == IF ~Truthy(explicit) /\ Len(topic_parts) >= 3
                     THEN StrV(topic_parts[3]) ELSE explicit
    IN  IF ~Truthy(fromTopic) THEN StrV("unknown") ELSE fromTopic

\* lines 156-162
ResolveSensorType(d, topic_parts) ==
    LET explicit == PyOr(Get(d, "sensor_type"), Get(d, "sensorType"))
    IN  IF ~Truthy(explicit)
        THEN IF Len(topic_parts) >= 2 THEN StrV(topic_parts[2]) ELSE StrV("unknown")
        ELSE explicit

\* lines 169-180: the timestamp, or Absent when int() raises outside a try.
ResolveTimestamp(d, now) ==
    LET ts == PyOr(PyOr(Get(d, "timestamp"), Get(d, "time")), Get(d, "Timestamp"))
    IN  IF Truthy(ts)
        THEN CASE ts.t = "float" -> IF ts.fin THEN FloatToInt(ts) ELSE Absent
               [] ts.t = "str" -> LET f == StrToFloat(ts.s)
                                  IN  IF f.t = "float" /\ f.fin THEN FloatToInt(f) ELSE IntV(now)
               [] OTHER -> ts
        ELSE IntV(now)

\* payload.get("value") == "1" or payload.get("value") == 1
IsOne(v) ==
    \/ v.t = "str" /\ v.s = "1"
    \/ v.t = "int" /\ v.n = 1
    \/ v.t = "float" /\ v.fin /\ v.n = 10

\* float(payload.get("value", 0)) inside try, 0.0 when it raises (lines 197-201)
DistanceOf(v) ==
    CASE v.t = "int" -> FloatV(v.n * 10)
      [] v.t = "float" -> v
      [] v.t = "str" -> IF StrToFloat(v.s).t = "float" THEN StrToFloat(v.s) ELSE FloatV(0)
      [] OTHER -> FloatV(0)

\* lines 186-211: the value bag, a dictionary over its own keys.
SensorData(d, sensor_type) ==
    LET own == KeysOf(d) \ metadata_fields
        plain == [k \in own |-> d[k]]
    IN  IF own = {} \/ (Cardinality(own) <= 2 /\ HasKey(d, "value"))
        THEN IF HasKey(d, "value")
             THEN IF IsStr(sensor_type, "pir")
                  THEN [k \in {"motion_detected"} |-> IsOne(Get(d, "value"))]
                  ELSE IF IsStr(sensor_type, "ultrasonic")
                  THEN [k \in {"distance_cm"} |-> DistanceOf(Get(d, "value"))]
                  ELSE [k \in {"value"} |-> Get(d, "value")]
             ELSE plain
        ELSE plain

\* "wearable" in topic
HasWearable(topic) == \E i \in DOMAIN topic : topic[i] \in {"wearable"}

NoReading == [device_id |-> Absent]

\* handle_mqtt_message(topic, payload), lines 126-273.  now: the clock;
\* dbFails: insert_sensor_reading raises.  failedAt names the statement whose
\* exception reached the handler of line 264, "none" when none did.
HandleMqttMessage(topic, payload, now, dbFails) ==
    LET d == EnsureDict(payload)
        topic_parts == Split(topic)
        device_id == ResolveDeviceId(d, topic_parts)
        sensor_type == ResolveSensorType(d, topic_parts)
        timestamp == ResolveTimestamp(d, now)
        db_reading == [device_id |-> device_id, sensor_type |-> sensor_type,
                       timestamp |-> timestamp, data |-> SensorData(d, sensor_type),
                       location |-> PyOr(Get(d, "location"), Get(d, "Location"))]
        failedAt == IF timestamp.t = "absent" THEN "timestamp"
                    ELSE IF dbFails THEN "insert"
                    ELSE IF ~HasWearable(topic) /\ device_id.t # "str" THEN "upper"
                    ELSE "none"
    IN  [fn |-> "handle_mqtt_message",
         reading |-> IF failedAt = "timestamp" THEN NoReading ELSE db_reading,
         stored |-> failedAt \in {"upper", "none"},
         broadcast |-> failedAt = "none",
         failedAt |-> failedAt,
         \* `except Exception` at line 264 ends without raising again
         raised |-> FALSE]

\* the topics of the study: one per subscribed pattern, and shorter ones.
TopicInputs ==
    {<<"sensors", "/", "pir", "/", "NODE_T">>,
     <<"sensors", "/", "ultrasonic", "/", "NODE_T">>,
     <<"wearable", "/", "fall", "/", "MICROBIT_1">>,
     <<"devices", "/", "NODE_T", "/", "status">>,
     <<"sensors", "/", "dht22", "/">>,
     <<"sensors", "/", "pir">>,
     <<"sensors">>}

\* the payloads of the study: dictionaries with and without the explicit
\* fields, scalars, pair lists and values that are neither.
DictInputs ==
    {[EmptyDict EXCEPT !["device_id"] = a, !["deviceId"] = b, !["sensor_type"] = c,
                       !["timestamp"] = ts, !["value"] = v, !["status"] = st] :
        a \in {Absent, StrV(""), StrV("NODE_P"), IntV(7)},
        b \in {Absent, StrV("NODE_Q")},
        c \in {Absent, StrV("dht22")},
        ts \in {Absent, IntV(1700), FloatV(17009), NonFinite, StrV("1700"), StrV("abc"),
                StrV("nan")},
        v \in {Absent, StrV("1"), FloatV(255)},
        st \in {Absent, StrV("online")}}

PayloadInputs ==
    {[shape |-> "dict", d |-> d] : d \in DictInputs}
    \cup {[shape |-> "scalar", v |-> v] : v \in {IntV(1), IntV(0), FloatV(255), StrV("1"), StrV("abc")}}
    \cup {[shape |-> "pairs", d |-> [EmptyDict EXCEPT !["value"] = StrV("25.5")]]}
    \cup {[shape |-> "other", v |-> v] : v \in {PyNone, Obj}}

NowInputs == {1800, 1801}

InitIngest ==
    /\ ClientIdle
    /\ result = NoResult
    /\ call \in {[fn |-> "handle_mqtt_message", topic |-> t, payload |-> p, now |-> n,
                  dbFails |-> f] :
                    t \in TopicInputs, p \in PayloadInputs, n \in NowInputs, f \in BOOLEAN}

Ingest ==
    /\ call.fn = "handle_mqtt_message" /\ result = NoResult
    /\ result' = HandleMqttMessage(call.topic, call.payload, call.now, call.dbFails)
    /\ UNCHANGED <<clientVars, call>>

SpecIngest == InitIngest /\ [][Ingest]_vars

\* the topics a subscription of MQTTClient delivers (mqtt_client.py, lines 74-82)
Subscribed(parts) ==
    /\ Len(parts) = 3
    /\ \/ parts[1] = "sensors" /\ parts[2] \in {"pir", "ultrasonic", "dht22", "combined"}
       \/ parts[1] = "wearable" /\ parts[2] \in {"fall", "accelerometer"}
       \/ parts[1] = "devices" /\ parts[3] = "status"

\* the segment a pattern's + stands for
DeviceSegment(parts) == IF parts[1] = "devices" THEN parts[2] ELSE parts[3]

\* C11: handle_mqtt_message propagates no exception and produces a reading
\* record, whatever the topic and the shape of the payload.
C11_IngestionProducesReading ==
    result.fn = "handle_mqtt_message" =>
       /\ ~result.raised
       /\ result.reading # NoReading

\* C12: on a subscribed topic the reading's device identifier is the explicit
\* (non-empty) payload field when there is one, otherwise the device segment
\* of the topic, otherwise "unknown"; the sensor kind of a sensors/ or
\* wearable/ topic is the explicit field, otherwise the topic's kind segment.
C12_IdentifierResolution ==
    (/\ result.fn = "handle_mqtt_message"
     /\ result.reading # NoReading
     /\ Subscribed(Split(call.topic))) =>
       LET parts == Split(call.topic)
           d == EnsureDict(call.payload)
           id == PyOr(Get(d, "device_id"), Get(d, "deviceId"))
           kind == PyOr(Get(d, "sensor_type"), Get(d, "sensorType"))
       IN  /\ result.reading.device_id =
                 IF Truthy(id) THEN id
                 ELSE IF DeviceSegment(parts) # "" THEN StrV(DeviceSegment(parts))
                 ELSE StrV("unknown")
           /\ parts[1] # "devices" =>
                 result.reading.sensor_type = IF Truthy(kind) THEN kind ELSE StrV(parts[2])

(***************************************************************************)
(* Fusion scorer: FallDetector in raspberry-pi-backend/ml_models/          *)
(* fall_detector.py.                                                       *)
(*                                                                         *)
(* A reading is a record: sensors.pir, sensors.ultrasonic and              *)
(* sensors.dht22 are Absent or the sensor's dictionary, location and       *)
(* device_id are Absent (no such key) or a Python value.  Scores are exact *)
(* fractions [num, den]; severity_score is reported in hundredths.  The    *)
(* floating-point sum differs from the exact one by less than any gap      *)
(* between the values compared here, except that a sum lying exactly       *)
(* halfway between two hundredths is rounded to either of them, as the     *)
(* binary error of the sum decides.                                        *)
(***************************************************************************)
MaxWindow == 3

room_verification_weight == 5
duration_weight == 3
environmental_weight == 2
FallThreshold == 6
CloseToGround == 50
NearGround == 100
PirInterval == 2

Pir(motion) == [t |-> "pir", motion_detected |-> motion]
Ultrasonic(cm) == [t |-> "ultrasonic", distance_cm |-> cm]
Dht22(temp, hum) == [t |-> "dht22", temperature_c |-> temp, humidity_percent |-> hum]
Has(reading, kind) == reading.sensors[kind].t # "absent"

Min(a, b) == IF a < b THEN a ELSE b
Abs(a) == IF a < 0 THEN 0 - a ELSE a
RECURSIVE SumSeq(_)
SumSeq(q) == IF q = <<>> THEN 0 ELSE Head(q) + SumSeq(Tail(q))

\* _calculate_room_verification_score, lines 91-118: score is counted in
\* halves (3.0 is 6, 1.5 is 3); the result is min(10, score / factors * 3.33).
RoomPoints(reading) ==
    (IF Has(reading, "pir") /\ ~reading.sensors.pir.motion_detected THEN 6 ELSE 0)
    + (IF Has(reading, "ultrasonic")
       THEN IF reading.sensors.ultrasonic.distance_cm < CloseToGround THEN 6
            ELSE IF reading.sensors.ultrasonic.distance_cm < NearGround THEN 3
            ELSE 0
       ELSE 0)
RoomFactors(reading) ==
    (IF Has(reading, "pir") THEN 1 ELSE 0) + (IF Has(reading, "ultrasonic") THEN 1 ELSE 0)

CalculateRoomVerificationScore(room_data) ==
    LET score == SumSeq([i \in DOMAIN room_data |-> RoomPoints(room_data[i])])
        factors == SumSeq([i \in DOMAIN room_data |-> RoomFactors(room_data[i])])
    IN  IF room_data = <<>> \/ factors = 0
        THEN [num |-> 0, den |-> 1]
        ELSE [num |-> Min(score * 333, 10 * 200 * factors), den |-> 200 * factors]

\* sorted(room_data, key=timestamp, reverse=True): stable, equal keys keep
\* their order.
RECURSIVE SortedRecentFirst(_)
SortedRecentFirst(q) ==
    IF q = <<>> THEN <<>>
    ELSE LET top == CHOOSE i \in DOMAIN q :
                      /\ \A j \in DOMAIN q : q[j].timestamp <= q[i].timestamp
                      /\ \A j \in 1..(i - 1) : q[j].timestamp < q[i].timestamp
         IN  <<q[top]>> \o SortedRecentFirst(SubSeq(q, 1, top - 1) \o SubSeq(q, top + 1, Len(q)))

\* lines 129-134: the PIR readings without motion met before the first one
\* with motion, two seconds for each.
RECURSIVE InactiveDuration(_)
InactiveDuration(q) ==
    IF q = <<>> THEN 0
    ELSE IF Has(Head(q), "pir")
         THEN IF Head(q).sensors.pir.motion_detected THEN 0
              ELSE PirInterval + InactiveDuration(Tail(q))
         ELSE InactiveDuration(Tail(q))

\* line 144: the score of an inactivity under ten seconds
ShortInactivityScore == 2

\* lines 122-123: the score of a window without readings
DurationOfEmptyWindow == 0

\* _calculate_duration_score, lines 120-144
CalculateDurationScore(room_data) ==
    IF room_data = <<>> THEN DurationOfEmptyWindow
    ELSE LET inactive_duration == InactiveDuration(SortedRecentFirst(room_data))
         IN  IF inactive_duration >= 30 THEN 10
             ELSE IF inactive_duration >= 20 THEN 7
             ELSE IF inactive_duration >= 10 THEN 4
             ELSE ShortInactivityScore

\* _calculate_environmental_score, lines 146-176
CalculateEnvironmentalScore(room_data) ==
    IF Len(room_data) < 2 THEN 0
    ELSE LET recent == room_data[1]
             older == room_data[Len(room_data)]
             both == Has(recent, "dht22") /\ Has(older, "dht22")
             temp_change == IF both THEN Abs(recent.sensors.dht22.temperature_c
                                             - older.sensors.dht22.temperature_c) ELSE 0
             hum_change == IF both THEN Abs(recent.sensors.dht22.humidity_percent
                                            - older.sensors.dht22.humidity_percent) ELSE 0
         IN  Min(10, (IF temp_change > 2 THEN 3 ELSE 0) + (IF hum_change > 5 THEN 2 ELSE 0))

\* lines 185-195: one factor for every PIR reading without motion and one
\* for every ultrasonic reading close to the ground.
VerificationFactors(reading) ==
    (IF Has(reading, "pir") /\ ~reading.sensors.pir.motion_detected THEN 1 ELSE 0)
    + (IF Has(reading, "ultrasonic") /\ reading.sensors.ultrasonic.distance_cm < CloseToGround
       THEN 1 ELSE 0)

\* _verify_with_room_sensors, lines 178-198
VerifyWithRoomSensors(room_data) ==
    /\ room_data # <<>>
    /\ SumSeq([i \in DOMAIN room_data |-> VerificationFactors(room_data[i])]) >= 2

\* dict.get(key, default): the default only when the key is missing.
GetOr(v, default) == IF v.t = "absent" THEN default ELSE v

\* _determine_location, lines 200-207
DetermineLocation(room_data) ==
    IF room_data = <<>> THEN StrV("unknown")
    ELSE LET latest == room_data[1]
         IN  GetOr(latest.location, GetOr(latest.device_id, StrV("unknown")))

\* lines 62-66: the weighted sum, as a fraction.
Severity(room_score, duration_score, env_score) ==
    [num |-> room_verification_weight * room_score.num
             + (duration_weight * duration_score + environmental_weight * env_score)
               * room_score.den,
     den |-> 10 * room_score.den]

\* round(x, 2) of a float sum whose exact value is x: the nearest hundredth;
\* tieUp tells where the float lies when x is halfway.
RoundFloat2(x, tieUp) ==
    LET scaled == x.num * 100
        q == scaled \div x.den
        r == scaled % x.den
    IN  IF 2 * r < x.den THEN q
        ELSE IF 2 * r > x.den THEN q + 1
        ELSE IF tieUp THEN q + 1 ELSE q

\* detect_fall, lines 38-87
DetectFall(room_sensor_data, tieUp) ==
    LET room_score == CalculateRoomVerificationScore(room_sensor_data)
        duration_score == CalculateDurationScore(room_sensor_data)
        env_score == CalculateEnvironmentalScore(room_sensor_data)
        severity_score == Severity(room_score, duration_score, env_score)
    IN  [fn |-> "detect_fall",
         fall_detected |-> severity_score.num >= FallThreshold * severity_score.den,
         severity_score |-> RoundFloat2(severity_score, tieUp),
         verified |-> VerifyWithRoomSensors(room_sensor_data),
         location |-> DetermineLocation(room_sensor_data),
         component_scores |-> [room_verification |-> room_score,
                               duration |-> duration_score,
                               environmental |-> env_score]]

\* the windows of the study: readings that differ in what the sensors report
\* and when, and readings that differ in their labels.
TimestampInputs == {100, 130}

SensorReadings ==
    {[sensors |-> [pir |-> p, ultrasonic |-> u, dht22 |-> d], timestamp |-> ts,
      location |-> StrV("bedroom"), device_id |-> StrV("NODE_A")] :
        p \in {Absent, Pir(TRUE), Pir(FALSE)},
        u \in {Absent, Ultrasonic(30), Ultrasonic(70)},
        d \in {Absent, Dht22(20, 40), Dht22(23, 40), Dht22(20, 46)},
        ts \in TimestampInputs}

LabelReadings ==
    {[sensors |-> [pir |-> Absent, ultrasonic |-> Absent, dht22 |-> Absent],
      timestamp |-> ts, location |-> l, device_id |-> dev] :
        ts \in TimestampInputs,
        l \in {Absent, PyNone, StrV("bedroom")},
        dev \in {Absent, StrV("NODE_A"), StrV("NODE_B")}}

Windows(S, n) == UNION {[1..k -> S] : k \in 0..n}

InitFall ==
    /\ ClientIdle
    /\ result = NoResult
    /\ call \in {[fn |-> "detect_fall", room_sensor_data |-> w] :
                    w \in Windows(SensorReadings, MaxWindow) \cup Windows(LabelReadings, 2)}

Fall ==
    /\ call.fn = "detect_fall" /\ result = NoResult
    /\ \E tieUp \in BOOLEAN : result' = DetectFall(call.room_sensor_data, tieUp)
    /\ UNCHANGED <<clientVars, call>>

SpecFall == InitFall /\ [][Fall]_vars

\* what a window holds, in the words of the claims
NoMotion(reading) == Has(reading, "pir") /\ ~reading.sensors.pir.motion_detected
OnGround(reading) ==
    Has(reading, "ultrasonic") /\ reading.sensors.ultrasonic.distance_cm < CloseToGround
\* seconds between the oldest and the most recent reading of a window
Span(w) ==
    LET ts == {w[i].timestamp : i \in DOMAIN w}
    IN  (CHOOSE a \in ts : \A b \in ts : b <= a) - (CHOOSE a \in ts : \A b \in ts : a <= b)
RecentFirst(w) == \A i, j \in DOMAIN w : i < j => w[i].timestamp >= w[j].timestamp

\* C13: a window whose readings all report no motion and a distance below
\* 50 cm, and which spans at least 30 s, gives fall_detected and a severity of
\* at least 6.0.
C13_StillAndLowIsFall ==
    LET w == call.room_sensor_data
    IN  (/\ result.fn = "detect_fall"
         /\ w # <<>>
         /\ \A i \in DOMAIN w : NoMotion(w[i]) /\ OnGround(w[i])
         /\ Span(w) >= 30) =>
           /\ result.fall_detected
           /\ result.severity_score >= FallThreshold * 100

\* C14: verified is true exactly when the window holds both a PIR reading
\* without motion and an ultrasonic distance below 50 cm.
C14_VerifiedNeedsBothFactors ==
    LET w == call.room_sensor_data
    IN  result.fn = "detect_fall" =>
           (result.verified <=>
               /\ \E i \in DOMAIN w : NoMotion(w[i])
               /\ \E i \in DOMAIN w : OnGround(w[i]))

\* C15: fall_detected is true exactly when the reported severity is at
\* least 6.0.
C15_DetectedIffReportedSeverity ==
    result.fn = "detect_fall" =>
       (result.fall_detected <=> result.severity_score >= FallThreshold * 100)

\* C16: in a window given most recent first, the location is the most recent
\* reading's location label, its device id when it has no label, "unknown"
\* when it has neither or the window is empty.
C16_LocationOfMostRecent ==
    LET w == call.room_sensor_data
    IN  (result.fn = "detect_fall" /\ RecentFirst(w)) =>
           result.location =
              IF w = <<>> THEN StrV("unknown")
              ELSE IF w[1].location.t = "str" THEN w[1].location
              ELSE IF w[1].device_id.t = "str" THEN w[1].device_id
              ELSE StrV("unknown")

\* C17: on an empty window detect_fall returns the three sub-scores 0,
\* severity 0, fall_detected false and verified false.
C17_EmptyWindowScoresNothing ==
    (result.fn = "detect_fall" /\ call.room_sensor_data = <<>>) =>
       /\ result.component_scores.room_verification.num = 0
       /\ result.component_scores.duration = 0
       /\ result.component_scores.environmental = 0
       /\ result.severity_score = 0
       /\ ~result.fall_detected
       /\ ~result.verified

C17_Witness ==
    /\ result.fn = "detect_fall" /\ call.room_sensor_data = <<>>
    /\ result.severity_score = 0 /\ ~result.fall_detected
    /\ result.location = StrV("unknown")

\* the same readings of a window, in every order
Orders(w) ==
    {[i \in DOMAIN w |-> w[f[i]]] :
        f \in {g \in [DOMAIN w -> DOMAIN w] : \A i, j \in DOMAIN w : g[i] = g[j] => i = j}}

\* C25: detect_fall returns the same sub-scores, severity, fall_detected,
\* verified and location for the readings of a window in whatever order they
\* are supplied, equal and out-of-order timestamps included.
C25_OrderTolerance ==
    result.fn = "detect_fall" =>
       \A w \in Orders(call.room_sensor_data) :
          \E tieUp \in BOOLEAN : DetectFall(w, tieUp) = result

(***************************************************************************)
(* Alert engine: AlertEngine in raspberry-pi-backend/alerts/alert_engine.py *)
(*                                                                         *)
(* Temperatures, humidities and distances are floats in tenths.  The       *)
(* inputs are multiples of one half, which binary floating point holds     *)
(* exactly, so the differences and comparisons below are the ones the      *)
(* floats give.  An alert is a record of its alert_type, severity, the     *)
(* variant of its message, its sensor_values (Absent where the key is not  *)
(* set) and its ml_based key; triggered_at is the wall clock and is left   *)
(* out.  An evaluation either returns a list of alerts or raises.          *)
(***************************************************************************)
temp_normal_min == 180
temp_normal_max == 260
temp_warning_min == 150
temp_warning_max == 300
temp_critical_min == 100
temp_critical_max == 350
temp_fire_risk == 400
temp_spike_threshold == 50
humidity_normal_min == 300
humidity_normal_max == 600
humidity_warning_min == 200
humidity_warning_max == 700
humidity_critical_min == 100
humidity_critical_max == 800
humidity_drop_threshold == 150
temp_fluctuation_threshold == 30
humidity_fluctuation_threshold == 100
trend_window_minutes == 5
SecondsPerMinute == 60
\* line 238: temperature > 25.0
DropTemperature == 250
\* line 523: the HC-SR04 measures up to 400 cm
UltrasonicMax == 4000
\* lines 486-492: at least 5 readings, the last 10 of them, 8 with motion
MotionMinReadings == 5
MotionLastReadings == 10
MotionCount == 8

BoolV(b) == [t |-> "bool", b |-> b]
DictV(d) == [t |-> "dict", d |-> d]
ListV(items) == [t |-> "list", items |-> items]
IsNumber(v) == v.t = "float" /\ v.fin
IsTrue(v) == IF v.t = "bool" THEN v.b ELSE Truthy(v)

SensorKeys == {"temperature_c", "humidity_percent", "motion_detected", "distance_cm"}
NoSensorData == [k \in SensorKeys |-> Absent]
\* sensor_data.get(k) and sensor_data.get(k, default)
SGetOr(d, k, default) == IF d[k].t = "absent" THEN default ELSE d[k]
SGet(d, k) == SGetOr(d, k, PyNone)

ValueKeys == {"temperature_c", "humidity_percent", "temperature_increase",
              "humidity_drop", "temperature_range", "min_temperature",
              "max_temperature", "humidity_range", "min_humidity", "max_humidity",
              "motion_detected", "motion_count", "distance_cm",
              "ml_confidence", "ml_prediction"}
NoValues == [k \in ValueKeys |-> Absent]

Alert(device_id, alert_type, severity, message, sensor_values) ==
    [device_id |-> device_id, alert_type |-> alert_type, severity |-> severity,
     message |-> message, sensor_values |-> sensor_values @@ NoValues,
     ml_based |-> Absent]

\* what a check hands back: its list of alerts, or the exception it raised
Returned(alerts) == [raised |-> FALSE, alerts |-> alerts]
Raised == [raised |-> TRUE, alerts |-> <<>>]
\* alerts.extend(...) of a later check
Extend(a, b) == IF a.raised \/ b.raised THEN Raised ELSE Returned(a.alerts \o b.alerts)

\* if recent_readings:
NonEmpty(recent_readings) == recent_readings.t = "list" /\ recent_readings.items # <<>>
ItemsOf(recent_readings) == IF recent_readings.t = "list" THEN recent_readings.items ELSE <<>>

\* r.get("data", {}) and what .get(k) of it gives; a data that is no
\* dictionary has no get (AttributeError)
DataOf(r) == IF r.data.t = "absent" THEN DictV(NoSensorData) ELSE r.data
BadData(r) == DataOf(r).t # "dict"
DataGet(r, k) == SGet(DataOf(r).d, k)
DataGetOr(r, k, default) == SGetOr(DataOf(r).d, k, default)
\* r.get("timestamp", 0)
TimestampOf(r) == IF r.timestamp.t = "absent" THEN 0 ELSE r.timestamp.n
OfType(r, sensor_type) == IsStr(r.sensor_type, sensor_type)

RECURSIVE MaxOf(_)
MaxOf(q) == IF Len(q) = 1 THEN Head(q)
            ELSE IF Head(q) >= MaxOf(Tail(q)) THEN Head(q) ELSE MaxOf(Tail(q))
RECURSIVE MinOf(_)
MinOf(q) == IF Len(q) = 1 THEN Head(q)
            ELSE IF Head(q) <= MinOf(Tail(q)) THEN Head(q) ELSE MinOf(Tail(q))
\* the numbers of a list of float values
Numbers(values) == [i \in DOMAIN values |-> values[i].n]
AllNumbers(values) == \A i \in DOMAIN values : IsNumber(values[i])

\* [r.get("data", {}).get(k) for r in recent_readings
\*  if r.get("sensor_type") == "dht22" and r.get("data", {}).get(k) is not None]
RecentOfDht22(items, k) ==
    LET kept == SelectSeq(items, LAMBDA r : OfType(r, "dht22") /\ ~BadData(r)
                                            /\ DataGet(r, k).t # "none")
    IN  [i \in DOMAIN kept |-> DataGet(kept[i], k)]
BadDht22(items) == \E i \in DOMAIN items : OfType(items[i], "dht22") /\ BadData(items[i])

CheckFireRisk(device_id, temperature, humidity, timestamp, recent_readings) ==
    LET items == ItemsOf(recent_readings)
        recent_temps == RecentOfDht22(items, "temperature_c")
        recent_humidities == RecentOfDht22(items, "humidity_percent")
        both == ("temperature_c" :> temperature) @@ ("humidity_percent" :> humidity)
    IN  IF \/ ~IsNumber(temperature)
           \/ BadDht22(items)
           \/ recent_temps # <<>> /\ ~AllNumbers(recent_temps)
           \/ recent_humidities # <<>>
                /\ ~(AllNumbers(recent_humidities) /\ IsNumber(humidity))
        THEN Raised
        ELSE LET temp_increase ==
                     temperature.n - MaxOf(Numbers(recent_temps))
                 humidity_drop ==
                     MaxOf(Numbers(recent_humidities)) - humidity.n
                 exceeds ==
                     IF temperature.n >= temp_fire_risk
                     THEN <<Alert(device_id, "fire_risk", "extreme", "temperature_reached", both)>>
                     ELSE <<>>
                 spike ==
                     IF recent_temps # <<>> /\ temp_increase >= temp_spike_threshold
                     THEN <<Alert(device_id, "fire_risk", "high", "temperature_spike",
                                  ("temperature_increase" :> FloatV(temp_increase)) @@ both)>>
                     ELSE <<>>
                 drop ==
                     IF /\ recent_humidities # <<>>
                        /\ humidity_drop >= humidity_drop_threshold
                        /\ temperature.n > DropTemperature
                     THEN <<Alert(device_id, "fire_risk", "medium", "humidity_drop",
                                  ("humidity_drop" :> FloatV(humidity_drop)) @@ both)>>
                     ELSE <<>>
             IN  Returned(exceeds \o spike \o drop)

CheckTemperature(device_id, temperature, timestamp, recent_readings) ==
    LET t == temperature.n
        value == "temperature_c" :> temperature
        alert(severity, message) ==
            Returned(<<Alert(device_id, "unsafe_temperature", severity, message, value)>>)
    IN  IF ~IsNumber(temperature) THEN Raised
        ELSE IF t <= temp_critical_min \/ t >= temp_critical_max
        THEN alert("extreme", IF t <= temp_critical_min THEN "critically_low"
                                                         ELSE "critically_high")
        ELSE IF t <= temp_warning_min \/ t >= temp_warning_max
        THEN alert("high", IF t <= temp_warning_min THEN "too_low" ELSE "too_high")
        ELSE IF t < temp_normal_min \/ t > temp_normal_max
        THEN alert("medium", IF t < temp_normal_min THEN "below_normal" ELSE "above_normal")
        ELSE Returned(<<>>)

CheckHumidity(device_id, humidity, timestamp, recent_readings) ==
    LET h == humidity.n
        value == "humidity_percent" :> humidity
        alert(severity, message) ==
            Returned(<<Alert(device_id, "unsafe_humidity", severity, message, value)>>)
    IN  IF ~IsNumber(humidity) THEN Raised
        ELSE IF h <= humidity_critical_min \/ h >= humidity_critical_max
        THEN alert("extreme", IF h <= humidity_critical_min THEN "critically_low"
                                                             ELSE "critically_high")
        ELSE IF h <= humidity_warning_min \/ h >= humidity_warning_max
        THEN alert("high", IF h <= humidity_warning_min THEN "too_low" ELSE "too_high")
        ELSE IF h < humidity_normal_min \/ h > humidity_normal_max
        THEN alert("medium", IF h < humidity_normal_min THEN "below_normal" ELSE "above_normal")
        ELSE Returned(<<>>)

\* lines 396-402: the dht22 readings of the window not older than
\* window_start that hold a temperature and a humidity
InTrendWindow(r, window_start) == OfType(r, "dht22") /\ TimestampOf(r) >= window_start
RecentDht22(items, window_start) ==
    SelectSeq(items, LAMBDA r : /\ InTrendWindow(r, window_start)
                                /\ ~BadData(r)
                                /\ DataGet(r, "temperature_c").t # "none"
                                /\ DataGet(r, "humidity_percent").t # "none")

\* line 412 and line 433: range >= threshold
Fluctuates(range, threshold) == range >= threshold

CheckFluctuations(device_id, temperature, humidity, timestamp, recent_readings) ==
    LET items == ItemsOf(recent_readings)
        window_start == timestamp - trend_window_minutes * SecondsPerMinute
        recent_dht22 == RecentDht22(items, window_start)
        temps == [i \in DOMAIN recent_dht22 |-> DataGet(recent_dht22[i], "temperature_c")]
                     \o <<temperature>>
        humidities == [i \in DOMAIN recent_dht22 |->
                          DataGet(recent_dht22[i], "humidity_percent")] \o <<humidity>>
        both == ("temperature_c" :> temperature) @@ ("humidity_percent" :> humidity)
    IN  IF ~NonEmpty(recent_readings) \/ Len(items) < 2 THEN Returned(<<>>)
        ELSE IF \E i \in DOMAIN items :
                    InTrendWindow(items[i], window_start) /\ BadData(items[i])
        THEN Raised
        ELSE IF Len(recent_dht22) < 2 THEN Returned(<<>>)
        ELSE IF ~AllNumbers(temps) \/ ~AllNumbers(humidities) THEN Raised
        ELSE LET temp_range == MaxOf(Numbers(temps)) - MinOf(Numbers(temps))
                 humidity_range == MaxOf(Numbers(humidities)) - MinOf(Numbers(humidities))
                 of_temperature ==
                     IF Fluctuates(temp_range, temp_fluctuation_threshold)
                     THEN <<Alert(device_id, "rapid_fluctuation", "high", "temperature",
                                  ("temperature_range" :> FloatV(temp_range))
                                  @@ ("min_temperature" :> FloatV(MinOf(Numbers(temps))))
                                  @@ ("max_temperature" :> FloatV(MaxOf(Numbers(temps))))
                                  @@ both)>>
                     ELSE <<>>
                 of_humidity ==
                     IF Fluctuates(humidity_range, humidity_fluctuation_threshold)
                     THEN <<Alert(device_id, "rapid_fluctuation", "medium", "humidity",
                                  ("humidity_range" :> FloatV(humidity_range))
                                  @@ ("min_humidity" :> FloatV(MinOf(Numbers(humidities))))
                                  @@ ("max_humidity" :> FloatV(MaxOf(Numbers(humidities))))
                                  @@ both)>>
                     ELSE <<>>
             IN  Returned(of_temperature \o of_humidity)

(***************************************************************************)
(* The learned overlay: MLAlertPredictor in                                *)
(* raspberry-pi-backend/ml_models/ml_alert_predictor.py.                   *)
(*                                                                         *)
(* A model is a file the loader may or may not find.  What a loaded model  *)
(* answers is outside the program: its predicted class (1 is the anomaly   *)
(* class of the training labels), the confidence max(predict_proba) in     *)
(* hundredths (PyNone for a model without predict_proba), or an exception  *)
(* of the scaler or of predict.  An alert of the predictor has no          *)
(* device_id (written "") until the engine sets it; the z_score, mean and  *)
(* standard deviation a statistical alert carries are left out.            *)
(***************************************************************************)
AnomalyConfidence == 70
FireConfidence == 60
FireExtremeConfidence == 80
ExtremeConfidence == 90
HighConfidence == 75
MediumConfidence == 60
ExtremeTemperature == 350
HighTemperature == 300
RuleFireTemperature == 400
StatMinReadings == 5
StatLastReadings == 20
ZScoreAnomaly == 3
ZScoreHigh == 4
\* line 367: max(std_temp, 0.1), in tenths
MinStd == 1
FeatureMinReadings == 2
TemperatureFeatureReadings == 10
FireFeatureReadings == 5

Confidence(hundredths) == [t |-> "confidence", n |-> hundredths]
NoModel == [present |-> FALSE, fails |-> FALSE, prediction |-> 0, probability |-> PyNone]
Failing == [present |-> TRUE, fails |-> TRUE, prediction |-> 0, probability |-> PyNone]
Loaded(prediction, probability) ==
    [present |-> TRUE, fails |-> FALSE, prediction |-> prediction,
     probability |-> probability]

\* probability and probability > bound
Above(probability, bound) ==
    probability.t = "confidence" /\ probability.n # 0 /\ probability.n > bound

\* recent_readings[-n:]
LastOf(items, n) ==
    IF Len(items) <= n THEN items ELSE SubSeq(items, Len(items) - n + 1, Len(items))
\* [r.get("data", {}).get(k) for r in readings if r.get("data", {}).get(k) is not None]
ValuesOf(readings, k) ==
    LET kept == SelectSeq(readings, LAMBDA r : ~BadData(r) /\ DataGet(r, k).t # "none")
    IN  [i \in DOMAIN kept |-> DataGet(kept[i], k)]
AnyBadData(readings) == \E i \in DOMAIN readings : BadData(readings[i])
RECURSIVE SumOf(_)
SumOf(q) == IF q = <<>> THEN 0 ELSE Head(q) + SumOf(Tail(q))
Squares(q) == [i \in DOMAIN q |-> q[i] * q[i]]

PredictorAlert(alert_type, severity, message, sensor_values, ml_based) ==
    [Alert("", alert_type, severity, message, sensor_values)
        EXCEPT !.ml_based = BoolV(ml_based)]
ModelValues(model) ==
    ("ml_confidence" :> model.probability) @@ ("ml_prediction" :> IntV(model.prediction))

\* lines 408-430
DetermineSeverityFromProbability(probability, temperature) ==
    IF probability.t = "none"
    THEN IF temperature.n > ExtremeTemperature THEN "extreme"
         ELSE IF temperature.n > HighTemperature THEN "high" ELSE "medium"
    ELSE IF probability.n > ExtremeConfidence THEN "extreme"
    ELSE IF probability.n > HighConfidence THEN "high"
    ELSE IF probability.n > MediumConfidence THEN "medium"
    ELSE "low"

\* lines 347-386: z = |temperature - mean| / max(std, 0.1) over the last 20
\* readings; with n readings of sum s and sum of squares q,
\* z > k  iff  (n*temperature - s)^2 > k^2 * max(n*q - s^2, (n * 0.1)^2)
StatisticalTemperatureAnomaly(temperature, humidity, recent_readings) ==
    LET items == ItemsOf(recent_readings)
        last == LastOf(items, StatLastReadings)
        temps == ValuesOf(last, "temperature_c")
        n == Len(temps)
        s == SumOf(Numbers(temps))
        q == SumOf(Squares(Numbers(temps)))
        distance == (n * temperature.n - s) * (n * temperature.n - s)
        spread == IF n * q - s * s > n * n * MinStd * MinStd
                  THEN n * q - s * s ELSE n * n * MinStd * MinStd
        both == ("temperature_c" :> temperature) @@ ("humidity_percent" :> humidity)
    IN  IF recent_readings.t # "list" \/ Len(items) < StatMinReadings THEN Returned(<<>>)
        ELSE IF AnyBadData(last) THEN Raised
        ELSE IF n < StatMinReadings THEN Returned(<<>>)
        ELSE IF ~AllNumbers(temps) \/ ~IsNumber(temperature) THEN Raised
        ELSE IF distance > ZScoreAnomaly * ZScoreAnomaly * spread
        THEN Returned(<<PredictorAlert("unsafe_temperature",
                            IF distance > ZScoreHigh * ZScoreHigh * spread
                            THEN "high" ELSE "medium",
                            "statistical", both, FALSE)>>)
        ELSE Returned(<<>>)

\* lines 388-406
RuleBasedFireRisk(temperature, humidity, recent_readings) ==
    IF ~IsNumber(temperature) THEN Raised
    ELSE IF temperature.n > RuleFireTemperature
    THEN Returned(<<PredictorAlert("fire_risk", "extreme", "rule_based",
                        ("temperature_c" :> temperature) @@ ("humidity_percent" :> humidity),
                        FALSE)>>)
    ELSE Returned(<<>>)

\* lines 253-295: whether building the feature vector raises
TemperatureFeaturesRaise(temperature, humidity, recent_readings) ==
    LET last == LastOf(ItemsOf(recent_readings), TemperatureFeatureReadings)
    IN  /\ recent_readings.t = "list"
        /\ Len(ItemsOf(recent_readings)) >= FeatureMinReadings
        /\ \/ AnyBadData(last)
           \/ ~AllNumbers(ValuesOf(last, "temperature_c") \o <<temperature>>)
           \/ ~AllNumbers(ValuesOf(last, "humidity_percent") \o <<humidity>>)

\* lines 297-321: temperature - temps[0] and humidity - hums[0]
FireRiskFeaturesRaise(temperature, humidity, recent_readings) ==
    LET last == LastOf(ItemsOf(recent_readings), FireFeatureReadings)
        temps == ValuesOf(last, "temperature_c")
        hums == ValuesOf(last, "humidity_percent")
    IN  /\ recent_readings.t = "list"
        /\ Len(ItemsOf(recent_readings)) >= FeatureMinReadings
        /\ \/ AnyBadData(last)
           \/ temps # <<>> /\ ~(IsNumber(temps[1]) /\ IsNumber(temperature))
           \/ temps # <<>> /\ hums # <<>> /\ ~(IsNumber(hums[1]) /\ IsNumber(humidity))

\* lines 323-345
MotionFeaturesRaise(motion_detected, distance, recent_readings) ==
    LET last == LastOf(ItemsOf(recent_readings), MotionLastReadings)
    IN  /\ recent_readings.t = "list"
        /\ Len(ItemsOf(recent_readings)) >= FeatureMinReadings
        /\ \/ AnyBadData(last)
           \/ ~AllNumbers(ValuesOf(last, "distance_cm"))

\* line 92 and line 233: prediction == 1 or (probability and probability > 0.7)
IsAnomaly(model) == model.prediction = 1 \/ Above(model.probability, AnomalyConfidence)
\* line 165
IsFireRisk(model) == model.prediction = 1 \/ Above(model.probability, FireConfidence)
\* line 168
FireRiskSeverity(probability) ==
    IF Above(probability, FireExtremeConfidence) THEN "extreme" ELSE "high"
\* line 238
MotionSeverity(probability) == "medium"

\* lines 42-116.  Formatting probability*100 of a model without
\* predict_proba raises inside the try block, which falls back to statistics.
PredictTemperatureAnomaly(temperature, humidity, recent_readings, model) ==
    LET fallback == StatisticalTemperatureAnomaly(temperature, humidity, recent_readings)
    IN  IF ~model.present THEN fallback
        ELSE IF TemperatureFeaturesRaise(temperature, humidity, recent_readings) THEN Raised
        ELSE IF model.fails THEN fallback
        ELSE IF ~IsAnomaly(model) THEN Returned(<<>>)
        ELSE IF model.probability.t = "none" THEN fallback
        ELSE Returned(<<PredictorAlert("unsafe_temperature",
                            DetermineSeverityFromProbability(model.probability, temperature),
                            "ml_detected",
                            ModelValues(model) @@ ("temperature_c" :> temperature)
                                @@ ("humidity_percent" :> humidity),
                            TRUE)>>)

\* lines 118-186
PredictFireRisk(temperature, humidity, recent_readings, model) ==
    LET fallback == RuleBasedFireRisk(temperature, humidity, recent_readings)
    IN  IF ~model.present THEN fallback
        ELSE IF FireRiskFeaturesRaise(temperature, humidity, recent_readings) THEN Raised
        ELSE IF model.fails THEN fallback
        ELSE IF ~IsFireRisk(model) THEN Returned(<<>>)
        ELSE IF model.probability.t = "none" THEN fallback
        ELSE Returned(<<PredictorAlert("fire_risk", FireRiskSeverity(model.probability),
                            "ml_detected",
                            ModelValues(model) @@ ("temperature_c" :> temperature)
                                @@ ("humidity_percent" :> humidity),
                            TRUE)>>)

\* lines 188-251
PredictMotionAnomaly(motion_detected, distance, recent_readings, model) ==
    IF ~model.present THEN Returned(<<>>)
    ELSE IF MotionFeaturesRaise(motion_detected, distance, recent_readings) THEN Raised
    ELSE IF model.fails \/ ~IsAnomaly(model) \/ model.probability.t = "none"
    THEN Returned(<<>>)
    ELSE Returned(<<PredictorAlert("motion_anomaly", MotionSeverity(model.probability),
                        "ml_detected",
                        ModelValues(model) @@ ("motion_detected" :> motion_detected)
                            @@ ("distance_cm" :> distance),
                        TRUE)>>)

\* ml_alert["device_id"] = device_id
OfDevice(alerts, device_id) == [i \in DOMAIN alerts |-> [alerts[i] EXCEPT !.device_id = device_id]]

\* alert_engine.py lines 135-156: predict_fire_risk, then
\* predict_temperature_anomaly, in one try block
MlDht22(device_id, temperature, humidity, recent_readings, model_fire, model_temp) ==
    LET fire == PredictFireRisk(temperature, humidity, recent_readings, model_fire)
        temp == PredictTemperatureAnomaly(temperature, humidity, recent_readings, model_temp)
    IN  IF fire.raised THEN <<>>
        ELSE IF temp.raised THEN OfDevice(fire.alerts, device_id)
        ELSE OfDevice(fire.alerts \o temp.alerts, device_id)

\* alert_engine.py lines 464-482: the distance of the first ultrasonic
\* entry of the window goes to predict_motion_anomaly
MlPir(device_id, motion_detected, recent_readings, model_motion) ==
    LET items == ItemsOf(recent_readings)
        ultrasonic == SelectSeq(items, LAMBDA r : OfType(r, "ultrasonic"))
        distance == IF ultrasonic = <<>> THEN PyNone ELSE DataGet(ultrasonic[1], "distance_cm")
        motion == PredictMotionAnomaly(motion_detected, distance, recent_readings, model_motion)
    IN  IF ultrasonic # <<>> /\ BadData(ultrasonic[1]) THEN <<>>
        ELSE IF motion.raised THEN <<>>
        ELSE OfDevice(motion.alerts, device_id)

\* the evaluation with the overlay called outside any try block
EvaluateDht22Unguarded(device_id, sensor_data, timestamp, recent_readings, use_ml, model_fire, model_temp) ==
    LET temperature == SGet(sensor_data, "temperature_c")
        humidity == SGet(sensor_data, "humidity_percent")
        fire == PredictFireRisk(temperature, humidity, recent_readings, model_fire)
        temp == PredictTemperatureAnomaly(temperature, humidity, recent_readings, model_temp)
        ml == IF use_ml THEN Extend(fire, temp) ELSE Returned(<<>>)
    IN  IF temperature.t = "none" \/ humidity.t = "none" THEN Returned(<<>>)
        ELSE Extend(IF ml.raised THEN Raised ELSE Returned(OfDevice(ml.alerts, device_id)),
             Extend(CheckFireRisk(device_id, temperature, humidity, timestamp, recent_readings),
             Extend(CheckTemperature(device_id, temperature, timestamp, recent_readings),
             Extend(CheckHumidity(device_id, humidity, timestamp, recent_readings),
                    CheckFluctuations(device_id, temperature, humidity, timestamp,
                                      recent_readings)))))

EvaluateDht22(device_id, sensor_data, timestamp, recent_readings, use_ml, model_fire, model_temp) ==
    LET temperature == SGet(sensor_data, "temperature_c")
        humidity == SGet(sensor_data, "humidity_percent")
        ml == Returned(IF use_ml
                       THEN MlDht22(device_id, temperature, humidity, recent_readings,
                                    model_fire, model_temp)
                       ELSE <<>>)
    IN  IF temperature.t = "none" \/ humidity.t = "none" THEN Returned(<<>>)
        ELSE Extend(ml,
             Extend(CheckFireRisk(device_id, temperature, humidity, timestamp, recent_readings),
             Extend(CheckTemperature(device_id, temperature, timestamp, recent_readings),
             Extend(CheckHumidity(device_id, humidity, timestamp, recent_readings),
                    CheckFluctuations(device_id, temperature, humidity, timestamp,
                                      recent_readings)))))

\* recent_readings[-10:]
LastReadings(items) ==
    IF Len(items) <= MotionLastReadings THEN items
    ELSE SubSeq(items, Len(items) - MotionLastReadings + 1, Len(items))

EvaluatePir(device_id, sensor_data, timestamp, recent_readings, use_ml, model_motion) ==
    LET motion_detected == SGetOr(sensor_data, "motion_detected", BoolV(FALSE))
        items == ItemsOf(recent_readings)
        last == LastReadings(items)
        ml == IF use_ml
              THEN MlPir(device_id, motion_detected, recent_readings, model_motion)
              ELSE <<>>
        moving == SelectSeq(last, LAMBDA r :
                      /\ OfType(r, "pir") /\ ~BadData(r)
                      /\ IsTrue(DataGetOr(r, "motion_detected", BoolV(FALSE))))
        motion_count == Len(moving)
    IN  IF ~NonEmpty(recent_readings) \/ Len(items) < MotionMinReadings THEN Returned(ml)
        ELSE IF \E i \in DOMAIN last : OfType(last[i], "pir") /\ BadData(last[i])
        THEN Raised
        ELSE IF motion_count >= MotionCount /\ IsTrue(motion_detected)
        THEN Returned(ml \o <<Alert(device_id, "motion_anomaly", "low", "extended_motion",
                                    ("motion_detected" :> motion_detected)
                                    @@ ("motion_count" :> IntV(motion_count)))>>)
        ELSE Returned(ml)

EvaluateUltrasonic(device_id, sensor_data, timestamp, recent_readings) ==
    LET distance == SGet(sensor_data, "distance_cm")
    IN  IF distance.t = "none" THEN Returned(<<>>)
        ELSE IF ~IsNumber(distance) THEN Raised
        ELSE IF distance.n < 0 \/ distance.n > UltrasonicMax
        THEN Returned(<<Alert(device_id, "sensor_failure", "medium", "reading_invalid",
                              "distance_cm" :> distance)>>)
        ELSE Returned(<<>>)

EvaluateSensorReading(device_id, sensor_type, sensor_data, timestamp, recent_readings, use_ml, model_fire, model_temp, model_motion) ==
    LET outcome ==
            CASE sensor_type = "dht22" ->
                     EvaluateDht22(device_id, sensor_data, timestamp, recent_readings,
                                   use_ml, model_fire, model_temp)
              [] sensor_type = "pir" ->
                     EvaluatePir(device_id, sensor_data, timestamp, recent_readings,
                                 use_ml, model_motion)
              [] sensor_type = "ultrasonic" ->
                     EvaluateUltrasonic(device_id, sensor_data, timestamp, recent_readings)
              [] OTHER -> Returned(<<>>)
    IN  [fn |-> "evaluate_sensor_reading", raised |-> outcome.raised,
         alerts |-> outcome.alerts]

\* The calls of evaluate_sensor_reading that are explored.  Now is the
\* timestamp of the reading; a window entry is 100 s or 400 s old.
MaxReadings == 3
Now == 1000
Dht22Data(temperature, humidity) ==
    DictV([NoSensorData EXCEPT !["temperature_c"] = temperature,
                               !["humidity_percent"] = humidity])
PirData(motion_detected) ==
    DictV([NoSensorData EXCEPT !["motion_detected"] = motion_detected])
Entry(sensor_type, timestamp, data) ==
    [sensor_type |-> StrV(sensor_type), timestamp |-> IntV(timestamp), data |-> data]
Dht22Entries ==
    {Entry("dht22", ts, data) :
        ts \in {Now - 400, Now - 100},
        data \in {Absent, StrV("{}"),
                  Dht22Data(FloatV(200), FloatV(450)), Dht22Data(FloatV(205), FloatV(450)),
                  Dht22Data(FloatV(210), FloatV(450)), Dht22Data(FloatV(200), FloatV(600)),
                  Dht22Data(Absent, FloatV(450)), Dht22Data(FloatV(200), PyNone),
                  Dht22Data(StrV("warm"), FloatV(450))}}
\* the prior readings 22 and 22.5 of the fire-risk scenario, 100 s or 400 s old
PriorEntries ==
    {Entry("dht22", ts, Dht22Data(FloatV(t), FloatV(450))) :
        ts \in {Now - 400, Now - 100}, t \in {220, 225}}
PirEntries ==
    {Entry("pir", Now - 100, data) :
        data \in {StrV("{}"), PirData(BoolV(TRUE)), PirData(BoolV(FALSE))}}
Repeated(entry, n) == [i \in 1..n |-> entry]
LongWindows ==
    {Repeated(e, n) : e \in PirEntries, n \in {5, 8, 11}}
    \cup {<<Entry("pir", Now - 100, PirData(BoolV(FALSE)))>> \o Repeated(e, 10) : e \in PirEntries}
    \cup {Repeated(e, 9) \o <<Entry("dht22", Now - 100, StrV("{}"))>> : e \in PirEntries}

BandTemperatures ==
    {FloatV(n) : n \in {95, 100, 105, 150, 155, 175, 180, 230, 260, 265, 295, 300,
                        345, 350, 400, 410}} \cup {Absent, StrV("warm")}
BandHumidities ==
    {FloatV(n) : n \in {95, 100, 105, 200, 205, 295, 300, 450, 600, 605, 695, 700,
                        795, 800, 1050}} \cup {Absent, StrV("wet")}
Distances == {Absent, PyNone, StrV("far"), FloatV(0 - 5), FloatV(0), FloatV(1500),
              FloatV(4000), FloatV(4005)}

EvaluateCall(sensor_type, sensor_data, recent_readings, use_ml) ==
    [fn |-> "evaluate_sensor_reading", device_id |-> "NODE_A", sensor_type |-> sensor_type,
     sensor_data |-> sensor_data, timestamp |-> Now, recent_readings |-> recent_readings,
     use_ml |-> use_ml]

AlertCalls ==
    {EvaluateCall("dht22", Dht22Data(t, h).d, w, ml) :
        t \in BandTemperatures, h \in BandHumidities,
        w \in {PyNone, ListV(<<>>)}, ml \in BOOLEAN}
    \cup {EvaluateCall("dht22", Dht22Data(FloatV(t), FloatV(450)).d, ListV(w), ml) :
            t \in {230, 240, 260},
            w \in Windows(Dht22Entries \cup {Entry("pir", Now - 100, StrV("{}"))}, MaxReadings),
            ml \in BOOLEAN}
    \cup {EvaluateCall("dht22", Dht22Data(FloatV(410), FloatV(450)).d, ListV(w), ml) :
            w \in Windows(PriorEntries, 2), ml \in BOOLEAN}
    \cup {EvaluateCall("dht22", Dht22Data(FloatV(t), FloatV(450)).d,
                        ListV(Repeated(e, StatMinReadings)), ml) :
            t \in {200, 230, 410}, e \in Dht22Entries, ml \in BOOLEAN}
    \cup {EvaluateCall("pir", PirData(m).d, w, ml) :
            m \in {Absent, BoolV(TRUE), BoolV(FALSE)},
            w \in {PyNone} \cup {ListV(q) : q \in Windows(PirEntries, 2) \cup LongWindows},
            ml \in BOOLEAN}
    \cup {EvaluateCall(kind, [NoSensorData EXCEPT !["distance_cm"] = d], PyNone, ml) :
            kind \in {"ultrasonic", "wearable"}, d \in Distances, ml \in BOOLEAN}

InitAlert ==
    /\ ClientIdle
    /\ result = NoResult
    /\ call \in AlertCalls

\* what the model files of one evaluation hold; none are read if use_ml is
\* false, the motion model only for a pir reading, the others only for dht22
EngineModels(read) ==
    IF read
    THEN {NoModel, Failing, Loaded(1, Confidence(95)), Loaded(0, Confidence(55))}
    ELSE {NoModel}

Evaluate ==
    /\ call.fn = "evaluate_sensor_reading" /\ result = NoResult
    /\ \E model_fire \in EngineModels(call.use_ml /\ call.sensor_type = "dht22"),
          model_temp \in EngineModels(call.use_ml /\ call.sensor_type = "dht22"),
          model_motion \in EngineModels(call.use_ml /\ call.sensor_type = "pir") :
          result' = EvaluateSensorReading(call.device_id, call.sensor_type, call.sensor_data,
                                          call.timestamp, call.recent_readings, call.use_ml,
                                          model_fire, model_temp, model_motion)
    /\ UNCHANGED <<clientVars, call>>

SpecAlert == InitAlert /\ [][Evaluate]_vars

\* the evaluation of a temperature-humidity reading, once it is over
Evaluated == result.fn = "evaluate_sensor_reading"
RuleAlerts(alert_type) ==
    SelectSeq(result.alerts, LAMBDA a : a.alert_type = alert_type /\ a.ml_based.t = "absent")

\* C18: evaluate_sensor_reading returns a list of alerts and raises nothing,
\* whatever the reading and whatever the entries of the window hold.
C18_EvaluationNeverRaises == Evaluated => ~result.raised

\* the band a value lies in: critical before warning before outside normal
BandOf(v, critical_min, critical_max, warning_min, warning_max, normal_min, normal_max) ==
    IF v <= critical_min \/ v >= critical_max THEN "extreme"
    ELSE IF v <= warning_min \/ v >= warning_max THEN "high"
    ELSE IF v < normal_min \/ v > normal_max THEN "medium"
    ELSE "none"
OneOfSeverity(alerts, severity) ==
    IF severity = "none" THEN alerts = <<>>
    ELSE Len(alerts) = 1 /\ alerts[1].severity = severity

\* C19: an evaluation of a reading emits, for its temperature and for its
\* humidity, exactly the one threshold alert of the band the value lies in
\* (extreme for critical, else high for warning, else medium outside normal)
\* and none for a value in the normal band.
C19_OneAlertOfTheBand ==
    Evaluated /\ call.sensor_type = "dht22" =>
        /\ IsNumber(call.sensor_data["temperature_c"]) =>
              OneOfSeverity(RuleAlerts("unsafe_temperature"),
                            BandOf(call.sensor_data["temperature_c"].n,
                                   temp_critical_min, temp_critical_max,
                                   temp_warning_min, temp_warning_max,
                                   temp_normal_min, temp_normal_max))
        /\ IsNumber(call.sensor_data["humidity_percent"]) =>
              OneOfSeverity(RuleAlerts("unsafe_humidity"),
                            BandOf(call.sensor_data["humidity_percent"].n,
                                   humidity_critical_min, humidity_critical_max,
                                   humidity_warning_min, humidity_warning_max,
                                   humidity_normal_min, humidity_normal_max))

\* the temperature-humidity readings the window holds inside the trailing
\* five minutes, and their temperatures with the current one
InsideCutoff ==
    SelectSeq(ItemsOf(call.recent_readings), LAMBDA r :
        /\ OfType(r, "dht22")
        /\ TimestampOf(r) >= call.timestamp - trend_window_minutes * SecondsPerMinute
        /\ ~BadData(r)
        /\ IsNumber(DataGet(r, "temperature_c"))
        /\ IsNumber(DataGet(r, "humidity_percent")))
TemperaturesInside ==
    [i \in DOMAIN InsideCutoff |-> DataGet(InsideCutoff[i], "temperature_c").n]
        \o <<call.sensor_data["temperature_c"].n>>
TemperatureFluctuations ==
    SelectSeq(result.alerts, LAMBDA a :
        a.alert_type = "rapid_fluctuation" /\ a.message = "temperature")

\* C20: an evaluation that returns emits a temperature fluctuation alert if
\* and only if the window holds at least 2 readings inside the trailing 5
\* minutes and max minus min over their temperatures and the current one
\* exceeds the threshold; the alert carries that range, its min and its max.
C20_FluctuationIffRangeExceeds ==
    Evaluated /\ ~result.raised /\ call.sensor_type = "dht22"
              /\ IsNumber(call.sensor_data["temperature_c"])
              /\ IsNumber(call.sensor_data["humidity_percent"]) =>
        LET range == MaxOf(TemperaturesInside) - MinOf(TemperaturesInside)
        IN  IF Len(InsideCutoff) >= 2 /\ range > temp_fluctuation_threshold
            THEN /\ Len(TemperatureFluctuations) = 1
                 /\ TemperatureFluctuations[1].sensor_values["temperature_range"] = FloatV(range)
                 /\ TemperatureFluctuations[1].sensor_values["min_temperature"]
                        = FloatV(MinOf(TemperaturesInside))
                 /\ TemperatureFluctuations[1].sensor_values["max_temperature"]
                        = FloatV(MaxOf(TemperaturesInside))
            ELSE TemperatureFluctuations = <<>>

\* line 523 (comment): the HC-SR04 measures from 2 cm
UltrasonicMin == 20
\* line 50: humidity is a percentage
PercentMax == 1000
spike_window_minutes == 2
SensorFailures == SelectSeq(result.alerts, LAMBDA a : a.alert_type = "sensor_failure")

\* C21: a reading whose value is outside what the sensor can measure (a
\* distance outside 2-400 cm, a humidity outside 0-100 %) gets a
\* sensor-failure alert and no threshold alert for that quantity.
C21_FaultReplacesThreshold ==
    Evaluated /\ ~result.raised =>
        /\ ( /\ call.sensor_type = "ultrasonic"
             /\ IsNumber(call.sensor_data["distance_cm"])
             /\ \/ call.sensor_data["distance_cm"].n < UltrasonicMin
                \/ call.sensor_data["distance_cm"].n > UltrasonicMax )
           => Len(SensorFailures) = 1
        /\ ( /\ call.sensor_type = "dht22"
             /\ IsNumber(call.sensor_data["temperature_c"])
             /\ IsNumber(call.sensor_data["humidity_percent"])
             /\ \/ call.sensor_data["humidity_percent"].n < 0
                \/ call.sensor_data["humidity_percent"].n > PercentMax )
           => Len(SensorFailures) = 1 /\ RuleAlerts("unsafe_humidity") = <<>>

\* the temperatures of the window not older than the spike window
InsideSpikeWindow ==
    SelectSeq(ItemsOf(call.recent_readings), LAMBDA r :
        /\ OfType(r, "dht22")
        /\ TimestampOf(r) >= call.timestamp - spike_window_minutes * SecondsPerMinute
        /\ ~BadData(r)
        /\ IsNumber(DataGet(r, "temperature_c")))
SpikeTemperatures ==
    [i \in DOMAIN InsideSpikeWindow |-> DataGet(InsideSpikeWindow[i], "temperature_c").n]
FireRiskAlerts(severity) ==
    SelectSeq(RuleAlerts("fire_risk"), LAMBDA a : a.severity = severity)
RapidRise == SelectSeq(RuleAlerts("fire_risk"), LAMBDA a : a.message = "temperature_spike")

\* C22: an evaluation that returns gives a reading of 40 C or more (41 C
\* after the readings 22 and 22.5) one fire-risk alert of severity extreme,
\* and a rapid-rise alert exactly when the temperature is at least 5 C above
\* the readings of the window that lie inside the last 2 minutes.
C22_FireRiskAndSpike ==
    Evaluated /\ ~result.raised /\ call.sensor_type = "dht22"
              /\ IsNumber(call.sensor_data["temperature_c"])
              /\ IsNumber(call.sensor_data["humidity_percent"]) =>
        /\ call.sensor_data["temperature_c"].n >= temp_fire_risk
              => Len(FireRiskAlerts("extreme")) = 1
        /\ Len(RapidRise) = 1 <=>
              /\ SpikeTemperatures # <<>>
              /\ call.sensor_data["temperature_c"].n - MaxOf(SpikeTemperatures)
                    >= temp_spike_threshold
        /\ Len(RapidRise) <= 1

(***************************************************************************)
(* The predictions of MLAlertPredictor on their own.                       *)
(***************************************************************************)
Confidences == {PyNone} \cup {Confidence(h) : h \in {50, 55, 60, 61, 70, 71, 75, 76,
                                                      80, 81, 90, 91, 100}}
Models == {NoModel, Failing}
          \cup {Loaded(prediction, c) : prediction \in {0, 1}, c \in Confidences}
PredictorWindows ==
    {PyNone, ListV(<<>>)}
    \cup {ListV(Repeated(e, n)) : e \in Dht22Entries \cup PirEntries,
                                  n \in {1, FeatureMinReadings, StatMinReadings}}
PredictorCalls ==
    {[fn |-> "predict_temperature_anomaly", temperature |-> FloatV(t),
      humidity |-> FloatV(450), recent_readings |-> w, model |-> m] :
        t \in {200, 230, 310, 360}, w \in PredictorWindows, m \in Models}
    \cup {[fn |-> "predict_fire_risk", temperature |-> FloatV(t),
           humidity |-> FloatV(450), recent_readings |-> w, model |-> m] :
            t \in {230, 400, 410}, w \in PredictorWindows, m \in Models}
    \cup {[fn |-> "predict_motion_anomaly", motion_detected |-> BoolV(b),
           distance |-> d, recent_readings |-> w, model |-> m] :
            b \in BOOLEAN, d \in {PyNone, FloatV(1500)}, w \in PredictorWindows,
            m \in Models}

InitPredict ==
    /\ ClientIdle
    /\ result = NoResult
    /\ call \in PredictorCalls

Prediction(outcome) == [fn |-> call.fn, raised |-> outcome.raised, alerts |-> outcome.alerts]

PredictTemperature ==
    /\ call.fn = "predict_temperature_anomaly" /\ result = NoResult
    /\ result' = Prediction(PredictTemperatureAnomaly(call.temperature, call.humidity,
                                                      call.recent_readings, call.model))
    /\ UNCHANGED <<clientVars, call>>

PredictFire ==
    /\ call.fn = "predict_fire_risk" /\ result = NoResult
    /\ result' = Prediction(PredictFireRisk(call.temperature, call.humidity,
                                            call.recent_readings, call.model))
    /\ UNCHANGED <<clientVars, call>>

PredictMotion ==
    /\ call.fn = "predict_motion_anomaly" /\ result = NoResult
    /\ result' = Prediction(PredictMotionAnomaly(call.motion_detected, call.distance,
                                                 call.recent_readings, call.model))
    /\ UNCHANGED <<clientVars, call>>

NextPredict == PredictTemperature \/ PredictFire \/ PredictMotion
SpecPredict == InitPredict /\ [][NextPredict]_vars

\* the alerts of an evaluation that come from its own checks (they carry no
\* ml_based key) and those of the overlay
OwnAlerts == SelectSeq(result.alerts, LAMBDA a : a.ml_based.t = "absent")
OverlayAlerts == SelectSeq(result.alerts, LAMBDA a : a.ml_based.t # "absent")
WithoutOverlay ==
    EvaluateSensorReading(call.device_id, call.sensor_type, call.sensor_data,
                          call.timestamp, call.recent_readings, FALSE,
                          NoModel, NoModel, NoModel)

\* C23: whatever the overlay does (disabled, no alert, an alert, an
\* exception), the evaluation of a temperature-humidity reading returns or
\* raises as it does without the overlay, and its fire-risk, threshold and
\* fluctuation alerts of the rules are the same, in the same order.
C23_OverlayKeepsRules ==
    Evaluated /\ call.sensor_type = "dht22" =>
        /\ result.raised = WithoutOverlay.raised
        /\ OwnAlerts = WithoutOverlay.alerts

\* an evaluation with the overlay enabled whose overlay gave an alert next
\* to alerts of the rules
C23_Witness ==
    /\ Evaluated /\ call.sensor_type = "dht22" /\ call.use_ml
    /\ OverlayAlerts # <<>> /\ OwnAlerts # <<>>
    /\ \E i \in DOMAIN OwnAlerts : OwnAlerts[i].alert_type = "rapid_fluctuation"

Predicted == result.fn \in {"predict_temperature_anomaly", "predict_fire_risk",
                            "predict_motion_anomaly"}
ModelAlerts == SelectSeq(result.alerts, LAMBDA a : a.ml_based = BoolV(TRUE))
ConfidenceBand(confidence) ==
    IF confidence > ExtremeConfidence THEN "extreme"
    ELSE IF confidence > HighConfidence THEN "high"
    ELSE IF confidence > MediumConfidence THEN "medium"
    ELSE "any"

\* C24: an alert that comes from a learned model has the severity of the
\* band of the model's confidence: above 0.9 extreme, above 0.75 high,
\* above 0.6 medium.
C24_SeverityOfConfidence ==
    Predicted =>
        \A i \in DOMAIN ModelAlerts :
            LET band == ConfidenceBand(ModelAlerts[i].sensor_values["ml_confidence"].n)
            IN  band # "any" => ModelAlerts[i].severity = band

\* C30: a prediction returns a model-based alert only if the class the
\* loaded model predicts is the anomaly class.
C30_AlertNeedsAnomalyClass ==
    Predicted /\ ModelAlerts # <<>> => call.model.prediction = 1

(* ------------------- delivery tracker: further claims ------------------ *)
\* a registration's body (lines 315-317, 348-350), as seen from a pair of states
RegisterStep == ev.pc \in {"pub_reg", "queue_reg"} /\ ev'.pc = "idle"

\* C26: the keys of the tracking set are distinct, an acknowledgment removes
\* only the PendingMessage of the publish() call whose send it acknowledges,
\* and a registration never overwrites the PendingMessage of another
\* publish() call.
C26_AckAttribution ==
    [][/\ \A i, j \in DOMAIN pending :
             pending[i].message_id = pending[j].message_id => i = j
       /\ (AckStep /\ HasMid(pending, nt.mid)) => GetMsg(pending, nt.mid).uid = nt.uid
       /\ (RegisterStep /\ HasMid(pending, ev.mid)) => GetMsg(pending, ev.mid).uid = ev.uid]_vars

\* no publish(), queueing, retry cycle or acknowledgment is half-way through
Quiescent == ev.pc = "idle" /\ nt.pc = "idle"

\* C27: when no step is half-way through, total_published is the sum of
\* total_acknowledged, total_failed and the size of the tracking set, and the
\* pending_messages counter is that size.
C27_CounterConservation ==
    Quiescent =>
       /\ stats.total_published
             = stats.total_acknowledged + stats.total_failed + Len(pending)
       /\ stats.pending_messages = Len(pending)

\* C29: a publish() called with qos 0 goes on with level 0, the level it
\* hands to the transport and to the tracking decision (a message at level 0
\* is not registered and not counted).
C29_LevelZeroHonoured ==
    [][\A retry \in BOOLEAN :
          (PublishCall(0, retry) /\ ev'.pc # "idle") => ev'.qos = 0]_vars

(***************************************************************************)
(* Inbound messages: the startup of the application (lifespan in           *)
(* raspberry-pi-backend/api/main.py) and MQTTClient._on_message.            *)
(*                                                                         *)
(* The event-loop thread runs lifespan: connect(), then at once the test   *)
(* of is_connected() that decides whether the message handler is set.  The *)
(* network thread runs _on_connect, _on_disconnect and _on_message.  call  *)
(* holds lifespan's position and self.message_handler, result the fate of  *)
(* the last inbound message.                                               *)
(***************************************************************************)
MaxReceived == 2

Lifespan(pc, handler) == [fn |-> "lifespan", pc |-> pc, message_handler |-> handler]

InitInbound ==
    /\ ClientIdle
    /\ call = Lifespan("startup", FALSE)
    /\ result = NoResult

\* connect() has returned and lifespan has not yet tested is_connected()
\* (main.py lines 76-81): no await lies between the two.
AwaitingCheck == call.pc = "startup" /\ client /\ ev.pc = "idle"

\* main.py lines 73-79: one MQTTClient, one connect().
LifespanConnect == ~client /\ Connect

\* the transport's own is_connected(): the session is up; while its loss is
\* being noticed either answer is possible.
TransportConnected == IF net = "lost" THEN BOOLEAN ELSE {net = "up"}

\* main.py lines 81-86: the handler is set if is_connected()
HandlerIfConnected(is_connected) == is_connected

\* is_connected() (mqtt_client.py lines 267-274) and main.py lines 81-86.
LifespanCheck ==
    /\ AwaitingCheck
    /\ \E up \in TransportConnected :
          call' = Lifespan("serving", HandlerIfConnected(connected /\ up))
    /\ UNCHANGED <<clientVars, result>>

\* time passes, but not between connect() and the test that follows it.
InboundTick == ~AwaitingCheck /\ Tick

\* a retry cycle starts once the application serves.
InboundRetryWake == call.pc = "serving" /\ RetryWake

\* _on_message, lines 170-256: a message on one of the subscribed topics
\* arrives; it is scheduled on the event loop if a handler is set and the
\* event loop is known (set by connect(), line 95).
OnMessage(topic) ==
    /\ net = "up" /\ nt.pc = "idle"
    /\ stats.total_received < MaxReceived
    /\ stats' = [stats EXCEPT !.total_received = stats.total_received + 1]
    /\ result' = [fn |-> "_on_message", topic |-> topic,
                  handed |-> call.message_handler /\ client]
    /\ UNCHANGED <<connected, client, net, nextMid, inflight, pending, message_id_counter,
                   retry_lock, retry_running, loops, ev, nt, nextUid, life, ret,
                   outages, report, call>>

NextInbound ==
    \/ LifespanConnect \/ ConnectFinish \/ LifespanCheck
    \/ OnConnect \/ NetDrop \/ OnDisconnect
    \/ InboundTick
    \/ InboundRetryWake \/ RetryScanAcquire \/ RetryScan
    \/ (\E topic \in 1..NumTopics : OnMessage(topic))

SpecInbound == InitInbound /\ [][NextInbound]_vars

\* C28: every message received on a subscribed topic while the transport is
\* connected is handed to the ingestion handler, also when the connection
\* was confirmed only after the startup or after a reconnection.
C28_InboundHanded ==
    result.fn = "_on_message" => result.handed

====
